---- MODULE Spec2Model ----
(***************************************************************************)
(* Portfolio Vision: the dual-backend persistence layer (Dexie/IndexedDB   *)
(* services in services/db.ts, Supabase services in                        *)
(* services/supabaseData.ts), the zustand store of stores/appStore.ts that *)
(* keeps the in-memory collections, and the import parser.                 *)
(***************************************************************************)
EXTENDS Integers, Sequences, FiniteSets, TLC

VARIABLES
  useCloud,            \* appStore: state.useCloud
  supabaseConfigured,  \* services/supabase.ts: both env vars are set
  user,                \* supabase.auth.getUser(): the signed-in user or Undefined
  db,                  \* the Dexie database PortfolioVisionDB, one field per table
  supabase,            \* the Postgres tables of supabase-schema.sql
  state,               \* the zustand store: collections and UI state
  usedIds,             \* per entity kind, the UUIDs generated or seen so far
  now,                 \* the wall clock read by new Date() / NOW()
  fileContent,         \* Settings: the file picked in the import file input
  inFlight,            \* the calls that await an answer of their backend
  ret                  \* the outcome of the last operation

vars ==
  <<useCloud, supabaseConfigured, user, db, supabase, state, usedIds, now, fileContent,
    inFlight, ret>>

----------------------------------------------------------------------------
(* Bounds of the model *)

MaxId == 3
MaxDate == 2
MaxValue == 2
MaxClock == 3
MaxMonth == 2

Ids == 1..MaxId
Dates == 1..MaxDate
Values == 1..MaxValue

\* JavaScript undefined / null, SQL NULL
Undefined == 0
NoError == "null"

----------------------------------------------------------------------------
(* Generic helpers *)

Min(S) == CHOOSE x \in S : \A y \in S : x <= y

\* { ...row, ...changes }
Merge(row, changes) ==
  [f \in (DOMAIN row) \cup (DOMAIN changes) |->
     IF f \in DOMAIN changes THEN changes[f] ELSE row[f]]

\* crypto.randomUUID() / uuid_generate_v4(): an id never seen before
HasFresh(kind) == Ids \ usedIds[kind] # {}
FreshId(kind) == Min(Ids \ usedIds[kind])
UseId(kind, ids) == [usedIds EXCEPT ![kind] = @ \cup ids]

\* the rows of a sequence
Range(s) == {s[i] : i \in 1..Len(s)}

\* a set of rows with distinct ids as a sequence ordered by id
RECURSIVE SortById(_)
SortById(S) ==
  IF S = {} THEN <<>>
  ELSE LET m == CHOOSE r \in S : \A q \in S : r.id <= q.id
       IN <<m>> \o SortById(S \ {m})

----------------------------------------------------------------------------
(* Dexie table primitives: a table is a set of rows keyed by id *)

TableGet(tbl, id) == {r \in tbl : r.id = id}
TablePut(tbl, row) == {r \in tbl : r.id # row.id} \cup {row}
TableUpdate(tbl, id, changes) ==
  {IF r.id = id THEN Merge(r, changes) ELSE r : r \in tbl}
TableDelete(tbl, id) == {r \in tbl : r.id # id}
TableWherePortfolio(tbl, portfolioId) == {r \in tbl : r.portfolioId = portfolioId}

----------------------------------------------------------------------------
(* services/db.ts: snapshotService over the local tables *)

\* .where('[portfolioId+date]').equals([portfolioId, date]).first(): the index
\* is not unique; equal keys come back in primary-key order
localDb_getDailySnapshotByDate(d, portfolioId, date) ==
  LET hits == {r \in d.dailySnapshots : r.portfolioId = portfolioId /\ r.date = date}
  IN IF hits = {} THEN {} ELSE {CHOOSE r \in hits : \A q \in hits : r.id <= q.id}

localDb_getDailySnapshots(d, portfolioId) ==
  TableWherePortfolio(d.dailySnapshots, portfolioId)

\* returns the tables after the call and the id the call resolves to
localDb_createDailySnapshot(d, snapshot) ==
  LET existing == localDb_getDailySnapshotByDate(d, snapshot.portfolioId, snapshot.date)
  IN IF existing # {}
     THEN LET e == CHOOSE r \in existing : TRUE
          IN [db |-> [d EXCEPT !.dailySnapshots =
                        TablePut(@, [snapshot EXCEPT !.id = e.id])],
              value |-> e.id]
     ELSE [db |-> [d EXCEPT !.dailySnapshots = @ \cup {snapshot}],
           value |-> snapshot.id]

localDb_updateDailySnapshot(d, id, changes) ==
  [d EXCEPT !.dailySnapshots = TableUpdate(@, id, changes)]

localDb_deleteDailySnapshot(d, id) ==
  [d EXCEPT !.dailySnapshots = TableDelete(@, id)]

\* .where('[portfolioId+month]').equals([portfolioId, month]).first()
localDb_getMonthlySnapshotByMonth(d, portfolioId, month) ==
  LET hits == {r \in d.monthlySnapshots : r.portfolioId = portfolioId /\ r.month = month}
  IN IF hits = {} THEN {} ELSE {CHOOSE r \in hits : \A q \in hits : r.id <= q.id}

localDb_createMonthlySnapshot(d, snapshot) ==
  LET existing == localDb_getMonthlySnapshotByMonth(d, snapshot.portfolioId, snapshot.month)
  IN IF existing # {}
     THEN LET e == CHOOSE r \in existing : TRUE
          IN [db |-> [d EXCEPT !.monthlySnapshots =
                        TablePut(@, [snapshot EXCEPT !.id = e.id])],
              value |-> e.id]
     ELSE [db |-> [d EXCEPT !.monthlySnapshots = @ \cup {snapshot}],
           value |-> snapshot.id]

localDb_updateMonthlySnapshot(d, id, changes) ==
  [d EXCEPT !.monthlySnapshots = TableUpdate(@, id, changes)]

localDb_deleteMonthlySnapshot(d, id) ==
  [d EXCEPT !.monthlySnapshots = TableDelete(@, id)]

----------------------------------------------------------------------------
(* services/supabaseData.ts over the tables of supabase-schema.sql *)

\* getUserId(): throws when nobody is signed in
Authenticated == user # Undefined

\* amounts are whole numbers of half cents
UnitsPerCent == 2

\* a DECIMAL(20, 2) column: the amount written is rounded to whole cents,
\* half a cent away from zero (the DECIMAL(10, 4) percentages are kept exact)
Decimal2(v) ==
  LET a == IF v < 0 THEN 0 - v ELSE v
      r == ((2 * a + UnitsPerCent) \div (2 * UnitsPerCent)) * UnitsPerCent
  IN IF v < 0 THEN 0 - r ELSE r

\* row level security: USING (auth.uid() = user_id)
Visible(tbl) == {r \in tbl : r.user_id = user}

\* the column mapping of every daily snapshot read
rowToDailySnapshot(s) ==
  [id |-> s.id, portfolioId |-> s.portfolio_id, date |-> s.date,
   walletBalances |-> s.wallet_balances, totalUsd |-> s.total_usd,
   variationPercent |-> s.variation_percent, variationUsd |-> s.variation_usd]

supabaseData_getDailySnapshots(c, portfolioId) ==
  {rowToDailySnapshot(s) : s \in {r \in Visible(c.daily_snapshots) : r.portfolio_id = portfolioId}}

\* UNIQUE(portfolio_id, date) and the foreign key to portfolios(id)
DailyInsertAllowed(c, row) ==
  /\ \A r \in c.daily_snapshots :
        ~(r.portfolio_id = row.portfolio_id /\ r.date = row.date)
  /\ \E p \in c.portfolios : p.id = row.portfolio_id

\* returns the error thrown (or NoError), the tables after the call and the
\* snapshot the call resolves to; newId is the uuid the insert would generate
supabaseData_createDailySnapshot(c, snapshot, newId) ==
  IF ~Authenticated
  THEN [error |-> "Not authenticated", db |-> c, value |-> Undefined, inserted |-> FALSE]
  ELSE
    LET hits == {r \in Visible(c.daily_snapshots) :
                   r.portfolio_id = snapshot.portfolioId /\ r.date = snapshot.date}
        \* .single(): data is null unless exactly one row matches
        existing == IF Cardinality(hits) = 1 THEN hits ELSE {}
    IN IF existing # {}
       THEN LET e == CHOOSE r \in existing : TRUE
                row == [e EXCEPT !.wallet_balances = snapshot.walletBalances,
                                 !.total_usd = Decimal2(snapshot.totalUsd),
                                 !.variation_percent = snapshot.variationPercent,
                                 !.variation_usd = Decimal2(snapshot.variationUsd)]
            IN [error |-> NoError,
                db |-> [c EXCEPT !.daily_snapshots = (@ \ {e}) \cup {row}],
                value |-> rowToDailySnapshot(row), inserted |-> FALSE]
       ELSE LET row == [id |-> newId, user_id |-> user,
                        portfolio_id |-> snapshot.portfolioId, date |-> snapshot.date,
                        wallet_balances |-> snapshot.walletBalances,
                        total_usd |-> Decimal2(snapshot.totalUsd),
                        variation_percent |-> snapshot.variationPercent,
                        variation_usd |-> Decimal2(snapshot.variationUsd)]
            IN IF DailyInsertAllowed(c, row)
               THEN [error |-> NoError,
                     db |-> [c EXCEPT !.daily_snapshots = @ \cup {row}],
                     value |-> rowToDailySnapshot(row), inserted |-> TRUE]
               ELSE [error |-> "constraint", db |-> c, value |-> Undefined,
                     inserted |-> FALSE]

\* delete ... eq('id', id), under the DELETE policy
supabaseData_deleteDailySnapshot(c, id) ==
  [c EXCEPT !.daily_snapshots = {r \in @ : ~(r.id = id /\ r.user_id = user)}]

\* the column mappings of the getAll reads
rowToPortfolio(p) ==
  [id |-> p.id, name |-> p.name, color |-> p.color, createdAt |-> p.created_at]
rowToWallet(w) ==
  [id |-> w.id, portfolioId |-> w.portfolio_id, name |-> w.name, color |-> w.color]
rowToMonthlySnapshot(s) ==
  [id |-> s.id, portfolioId |-> s.portfolio_id, month |-> s.month, year |-> s.year,
   totalUsd |-> s.total_usd, deltaUsd |-> s.delta_usd, deltaPercent |-> s.delta_percent,
   btcPrice |-> s.btc_price, ethPrice |-> s.eth_price]
rowToGoal(g) ==
  [id |-> g.id, portfolioId |-> g.portfolio_id, name |-> g.name,
   targetValue |-> g.target_value, completedAt |-> g.completed_at,
   createdAt |-> g.created_at]
rowToJournalEntry(e) ==
  [id |-> e.id, portfolioId |-> e.portfolio_id, date |-> e.date, title |-> e.title,
   createdAt |-> e.created_at, updatedAt |-> e.updated_at]
rowToMarketEvent(e) ==
  [id |-> e.id, date |-> e.date, title |-> e.title, createdAt |-> e.created_at]

\* select('*').eq('user_id', userId).order('created_at'): oldest first
RECURSIVE SortByCreated(_)
SortByCreated(S) ==
  IF S = {} THEN <<>>
  ELSE LET m == CHOOSE r \in S : \A q \in S :
                  \/ r.createdAt < q.createdAt
                  \/ (r.createdAt = q.createdAt /\ r.id <= q.id)
       IN <<m>> \o SortByCreated(S \ {m})

supabaseData_getPortfolios(c) ==
  SortByCreated({rowToPortfolio(r) : r \in {q \in Visible(c.portfolios) : q.user_id = user}})
supabaseData_getWallets(c) ==
  {rowToWallet(r) : r \in {q \in Visible(c.wallets) : q.user_id = user}}
supabaseData_getGoals(c) ==
  {rowToGoal(r) : r \in {q \in Visible(c.goals) : q.user_id = user}}
supabaseData_getJournalEntries(c) ==
  {rowToJournalEntry(r) : r \in {q \in Visible(c.journal_entries) : q.user_id = user}}
supabaseData_getMarketEvents(c) ==
  {rowToMarketEvent(r) : r \in {q \in Visible(c.market_events) : q.user_id = user}}

supabaseData_getMonthlySnapshots(c, portfolioId) ==
  {rowToMonthlySnapshot(s) :
     s \in {r \in Visible(c.monthly_snapshots) : r.portfolio_id = portfolioId}}

localDb_getMonthlySnapshots(d, portfolioId) ==
  TableWherePortfolio(d.monthlySnapshots, portfolioId)

\* UNIQUE(portfolio_id, month) and the foreign key to portfolios(id)
MonthlyInsertAllowed(c, row) ==
  /\ \A r \in c.monthly_snapshots :
        ~(r.portfolio_id = row.portfolio_id /\ r.month = row.month)
  /\ \E p \in c.portfolios : p.id = row.portfolio_id

supabaseData_createMonthlySnapshot(c, snapshot, newId) ==
  IF ~Authenticated
  THEN [error |-> "Not authenticated", db |-> c, value |-> Undefined, inserted |-> FALSE]
  ELSE
    LET hits == {r \in Visible(c.monthly_snapshots) :
                   r.portfolio_id = snapshot.portfolioId /\ r.month = snapshot.month}
        existing == IF Cardinality(hits) = 1 THEN hits ELSE {}
    IN IF existing # {}
       THEN LET e == CHOOSE r \in existing : TRUE
                row == [e EXCEPT !.total_usd = Decimal2(snapshot.totalUsd),
                                 !.delta_usd = Decimal2(snapshot.deltaUsd),
                                 !.delta_percent = snapshot.deltaPercent,
                                 !.btc_price = Decimal2(snapshot.btcPrice),
                                 !.eth_price = Decimal2(snapshot.ethPrice)]
            IN [error |-> NoError,
                db |-> [c EXCEPT !.monthly_snapshots = (@ \ {e}) \cup {row}],
                value |-> rowToMonthlySnapshot(row), inserted |-> FALSE]
       ELSE LET row == [id |-> newId, user_id |-> user,
                        portfolio_id |-> snapshot.portfolioId, month |-> snapshot.month,
                        year |-> snapshot.year,
                        total_usd |-> Decimal2(snapshot.totalUsd),
                        delta_usd |-> Decimal2(snapshot.deltaUsd),
                        delta_percent |-> snapshot.deltaPercent,
                        btc_price |-> Decimal2(snapshot.btcPrice),
                        eth_price |-> Decimal2(snapshot.ethPrice)]
            IN IF MonthlyInsertAllowed(c, row)
               THEN [error |-> NoError,
                     db |-> [c EXCEPT !.monthly_snapshots = @ \cup {row}],
                     value |-> rowToMonthlySnapshot(row), inserted |-> TRUE]
               ELSE [error |-> "constraint", db |-> c, value |-> Undefined,
                     inserted |-> FALSE]

\* a field the changes leave out is sent as undefined and the column is kept
Given(changes, field, old) == IF field \in DOMAIN changes THEN changes[field] ELSE old

\* update({total_usd, delta_usd, delta_percent, btc_price, eth_price}).eq('id', id)
supabaseData_updateMonthlySnapshot(c, id, changes) ==
  [c EXCEPT !.monthly_snapshots =
     {IF r.id = id /\ r.user_id = user
      THEN [r EXCEPT !.total_usd = Decimal2(Given(changes, "totalUsd", @)),
                     !.delta_usd = Decimal2(Given(changes, "deltaUsd", @)),
                     !.delta_percent = Given(changes, "deltaPercent", @),
                     !.btc_price = Decimal2(Given(changes, "btcPrice", @)),
                     !.eth_price = Decimal2(Given(changes, "ethPrice", @))]
      ELSE r : r \in @}]

supabaseData_deleteMonthlySnapshot(c, id) ==
  [c EXCEPT !.monthly_snapshots = {r \in @ : ~(r.id = id /\ r.user_id = user)}]

----------------------------------------------------------------------------
(* stores/appStore.ts *)

\* useCloud && isSupabaseConfigured()
CloudActive == useCloud /\ supabaseConfigured

Reject(op, msg) == [op |-> op, ok |-> FALSE, value |-> Undefined, error |-> msg]
Resolve(op, value) == [op |-> op, ok |-> TRUE, value |-> value, error |-> NoError]

\* the collections and the active portfolio a successful load puts in the store
Loaded(portfolios, wallets, goals, journalEntries, marketEvents, snapshots, monthlySnapshots) ==
  [portfolios |-> portfolios,
   wallets |-> wallets,
   snapshots |-> snapshots,
   monthlySnapshots |-> monthlySnapshots,
   goals |-> goals,
   journalEntries |-> journalEntries,
   marketEvents |-> marketEvents,
   activePortfolioId |-> IF Len(portfolios) > 0 THEN portfolios[1].id ELSE Undefined,
   isLoading |-> FALSE,
   error |-> NoError]

LoadFromSupabase(c) ==
  LET portfolios == supabaseData_getPortfolios(c)
  IN Loaded(portfolios,
            supabaseData_getWallets(c),
            supabaseData_getGoals(c),
            supabaseData_getJournalEntries(c),
            supabaseData_getMarketEvents(c),
            UNION {supabaseData_getDailySnapshots(c, p.id) : p \in Range(portfolios)},
            UNION {supabaseData_getMonthlySnapshots(c, p.id) : p \in Range(portfolios)})

LoadFromLocal(d) ==
  LET portfolios == SortById(d.portfolios)
  IN Loaded(portfolios, d.wallets, d.goals, d.journalEntries, d.marketEvents,
            UNION {localDb_getDailySnapshots(d, p.id) : p \in Range(portfolios)},
            UNION {localDb_getMonthlySnapshots(d, p.id) : p \in Range(portfolios)})

\* the store after initialize(cloud) ran against the tables d and c
AfterInitialize(cloud, d, c) ==
  IF cloud /\ supabaseConfigured
  THEN IF Authenticated
       THEN LoadFromSupabase(c)
       ELSE [state EXCEPT !.error = "Not authenticated", !.isLoading = FALSE]
  ELSE LoadFromLocal(d)

initialize(cloud) ==
  /\ useCloud' = cloud
  /\ state' = AfterInitialize(cloud, db, supabase)
  /\ ret' = Resolve("initialize", Undefined)
  /\ UNCHANGED <<inFlight, fileContent, supabaseConfigured, user, db, supabase, usedIds, now>>

createSnapshot(data) ==
  /\ HasFresh("snapshot")
  /\ LET id == FreshId("snapshot")
     IN IF CloudActive
        THEN LET r == supabaseData_createDailySnapshot(supabase, data, id)
             IN /\ supabase' = r.db
                /\ usedIds' = IF r.inserted THEN UseId("snapshot", {id}) ELSE usedIds
                /\ db' = db
                /\ IF r.error # NoError
                   THEN /\ state' = state
                        /\ ret' = Reject("createSnapshot", r.error)
                   ELSE /\ state' = [state EXCEPT !.snapshots =
                                       {s \in @ : ~(s.portfolioId = r.value.portfolioId
                                                    /\ s.date = r.value.date)}
                                       \cup {r.value}]
                        /\ ret' = Resolve("createSnapshot", r.value)
        ELSE LET snapshot == Merge(data, [id |-> id])
                 r == localDb_createDailySnapshot(db, snapshot)
             IN /\ db' = r.db
                /\ usedIds' = UseId("snapshot", {id})
                /\ supabase' = supabase
                /\ state' = [state EXCEPT !.snapshots =
                               {s \in @ : ~(s.portfolioId = snapshot.portfolioId
                                            /\ s.date = snapshot.date)}
                               \cup {snapshot}]
                /\ ret' = Resolve("createSnapshot", snapshot)
  /\ UNCHANGED <<inFlight, fileContent, useCloud, supabaseConfigured, user, now>>

updateSnapshot(id, changes) ==
  /\ IF CloudActive
     THEN db' = db  \* no remote update method: nothing is persisted
     ELSE db' = localDb_updateDailySnapshot(db, id, changes)
  /\ state' = [state EXCEPT !.snapshots =
                 {IF s.id = id THEN Merge(s, changes) ELSE s : s \in @}]
  /\ ret' = Resolve("updateSnapshot", [id |-> id, changes |-> changes])
  /\ UNCHANGED <<inFlight, fileContent, useCloud, supabaseConfigured, user, supabase, usedIds, now>>

deleteSnapshot(id) ==
  /\ IF CloudActive
     THEN /\ supabase' = supabaseData_deleteDailySnapshot(supabase, id)
          /\ db' = db
     ELSE /\ db' = localDb_deleteDailySnapshot(db, id)
          /\ supabase' = supabase
  /\ state' = [state EXCEPT !.snapshots = {s \in @ : s.id # id}]
  /\ ret' = Resolve("deleteSnapshot", id)
  /\ UNCHANGED <<inFlight, fileContent, useCloud, supabaseConfigured, user, usedIds, now>>

createMonthlySnapshot(data) ==
  /\ HasFresh("monthly")
  /\ LET id == FreshId("monthly")
     IN IF CloudActive
        THEN LET r == supabaseData_createMonthlySnapshot(supabase, data, id)
             IN /\ supabase' = r.db
                /\ usedIds' = IF r.inserted THEN UseId("monthly", {id}) ELSE usedIds
                /\ db' = db
                /\ IF r.error # NoError
                   THEN /\ state' = state
                        /\ ret' = Reject("createMonthlySnapshot", r.error)
                   ELSE /\ state' = [state EXCEPT !.monthlySnapshots =
                                       {s \in @ : ~(s.portfolioId = r.value.portfolioId
                                                    /\ s.month = r.value.month)}
                                       \cup {r.value}]
                        /\ ret' = Resolve("createMonthlySnapshot", r.value)
        ELSE LET snapshot == Merge(data, [id |-> id])
                 r == localDb_createMonthlySnapshot(db, snapshot)
             IN /\ db' = r.db
                /\ usedIds' = UseId("monthly", {id})
                /\ supabase' = supabase
                /\ state' = [state EXCEPT !.monthlySnapshots =
                               {s \in @ : ~(s.portfolioId = snapshot.portfolioId
                                            /\ s.month = snapshot.month)}
                               \cup {snapshot}]
                /\ ret' = Resolve("createMonthlySnapshot", snapshot)
  /\ UNCHANGED <<inFlight, fileContent, useCloud, supabaseConfigured, user, now>>

updateMonthlySnapshot(id, changes) ==
  /\ IF CloudActive
     THEN /\ supabase' = supabaseData_updateMonthlySnapshot(supabase, id, changes)
          /\ db' = db
     ELSE /\ db' = localDb_updateMonthlySnapshot(db, id, changes)
          /\ supabase' = supabase
  /\ state' = [state EXCEPT !.monthlySnapshots =
                 {IF s.id = id THEN Merge(s, changes) ELSE s : s \in @}]
  /\ ret' = Resolve("updateMonthlySnapshot", [id |-> id, changes |-> changes])
  /\ UNCHANGED <<inFlight, fileContent, useCloud, supabaseConfigured, user, usedIds, now>>

deleteMonthlySnapshot(id) ==
  /\ IF CloudActive
     THEN /\ supabase' = supabaseData_deleteMonthlySnapshot(supabase, id)
          /\ db' = db
     ELSE /\ db' = localDb_deleteMonthlySnapshot(db, id)
          /\ supabase' = supabase
  /\ state' = [state EXCEPT !.monthlySnapshots = {s \in @ : s.id # id}]
  /\ ret' = Resolve("deleteMonthlySnapshot", id)
  /\ UNCHANGED <<inFlight, fileContent, useCloud, supabaseConfigured, user, usedIds, now>>

----------------------------------------------------------------------------
(* services/db.ts: exportService.importData, and its caller in Settings *)

\* for (const row of rows) { if (!(await table.get(row.id))) await table.add(row) }
\* a variant of AddIfAbsent that writes the row whether or not its id is stored
PutAlways(tbl, row) == TablePut(tbl, row)

\* const existing = await table.get(row.id); if (!existing) await table.add(row)
AddIfAbsent(tbl, row) == IF TableGet(tbl, row.id) = {} THEN tbl \cup {row} ELSE tbl

RECURSIVE AddMissing(_, _)
AddMissing(tbl, rows) ==
  IF rows = <<>> THEN tbl
  ELSE AddMissing(AddIfAbsent(tbl, Head(rows)), Tail(rows))

exportService_importData(d, data) ==
  [portfolios |-> AddMissing(d.portfolios, data.portfolios),
   wallets |-> AddMissing(d.wallets, data.wallets),
   dailySnapshots |-> AddMissing(d.dailySnapshots, data.snapshots),
   monthlySnapshots |-> AddMissing(d.monthlySnapshots, data.monthlySnapshots),
   goals |-> AddMissing(d.goals, data.goals),
   journalEntries |-> AddMissing(d.journalEntries, data.journalEntries),
   marketEvents |-> AddMissing(d.marketEvents, data.marketEvents)]

\* parseJSON: a full backup keeps portfolios, wallets and snapshots only
parseJSONFull(data) ==
  [portfolios |-> data.portfolios, wallets |-> data.wallets, snapshots |-> data.snapshots,
   monthlySnapshots |-> <<>>, goals |-> <<>>, journalEntries |-> <<>>,
   marketEvents |-> <<>>]

PayloadIds(data, field) == {data[field][i].id : i \in 1..Len(data[field])}

SeenIds(ids, data) ==
  [ids EXCEPT !["portfolio"] = @ \cup PayloadIds(data, "portfolios"),
                  !["wallet"] = @ \cup PayloadIds(data, "wallets"),
                  !["snapshot"] = @ \cup PayloadIds(data, "snapshots"),
                  !["monthly"] = @ \cup PayloadIds(data, "monthlySnapshots"),
                  !["goal"] = @ \cup PayloadIds(data, "goals"),
                  !["journal"] = @ \cup PayloadIds(data, "journalEntries"),
                  !["event"] = @ \cup PayloadIds(data, "marketEvents")]

\* Settings.handleFileSelect on a .json backup: import into the local
\* database, then refreshData()
handleFileSelectJson(content) ==
  LET data == parseJSONFull(content)
  IN /\ db' = exportService_importData(db, data)
     /\ usedIds' = SeenIds(usedIds, data)
     /\ state' = AfterInitialize(useCloud, db', supabase)
     /\ ret' = Resolve("handleFileSelect", Undefined)
     /\ UNCHANGED <<inFlight, fileContent, useCloud, supabaseConfigured, user, supabase, now>>

----------------------------------------------------------------------------
(* Initial states *)

EmptyDb ==
  [portfolios |-> {}, wallets |-> {}, dailySnapshots |-> {}, monthlySnapshots |-> {},
   goals |-> {}, journalEntries |-> {}, marketEvents |-> {}]

EmptySupabase ==
  [portfolios |-> {}, wallets |-> {}, daily_snapshots |-> {}, monthly_snapshots |-> {},
   goals |-> {}, journal_entries |-> {}, market_events |-> {}]

EmptyData ==
  [portfolios |-> <<>>, wallets |-> <<>>, snapshots |-> <<>>, monthlySnapshots |-> <<>>,
   goals |-> <<>>, journalEntries |-> <<>>, marketEvents |-> <<>>]

\* create<AppState>((set, get) => ({ ... })): the store as constructed
InitialState ==
  [portfolios |-> <<>>, wallets |-> {}, snapshots |-> {}, monthlySnapshots |-> {},
   goals |-> {}, journalEntries |-> {}, marketEvents |-> {},
   activePortfolioId |-> Undefined, isLoading |-> TRUE, error |-> NoError]

NoIds ==
  [k \in {"portfolio", "wallet", "snapshot", "monthly", "goal", "journal", "event"} |-> {}]

\* one portfolio persisted in each backend by an earlier session
LocalPortfolio == [id |-> 1, name |-> "Main", color |-> "#3b82f6", createdAt |-> 1]
CloudPortfolio ==
  [id |-> 2, user_id |-> 1, name |-> "Main", color |-> "#3b82f6", created_at |-> 1]

InitCommon ==
  /\ useCloud = FALSE
  /\ supabaseConfigured \in BOOLEAN
  /\ user = 1
  /\ state = InitialState
  /\ now = 1
  /\ inFlight = <<>>
  /\ ret = Resolve("create", Undefined)

----------------------------------------------------------------------------
(* The daily snapshot operations of both backends *)

Balances(v) == <<[walletId |-> 1, valueUsd |-> v]>>

LoadedPortfolioIds == {p.id : p \in Range(state.portfolios)}

\* what AddSnapshotModal.handleSubmit hands to the store
DailyData ==
  {[portfolioId |-> p, date |-> d, walletBalances |-> Balances(v), totalUsd |-> v,
    variationPercent |-> 0, variationUsd |-> 0] :
     p \in LoadedPortfolioIds, d \in Dates, v \in Values}

\* the edit form passes the same fields as changes
DailyChanges == DailyData

\* backups holding at most one daily snapshot
DailyBackups ==
  {[EmptyData EXCEPT !.snapshots =
      <<[id |-> i, portfolioId |-> p, date |-> d, walletBalances |-> Balances(v),
         totalUsd |-> v, variationPercent |-> 0, variationUsd |-> 0]>>] :
     i \in Ids, p \in {LocalPortfolio.id}, d \in Dates, v \in Values}

\* no file picked
NoFile == [kind |-> "none", content |-> <<>>]

DailyInit ==
  /\ InitCommon
  /\ fileContent = NoFile
  /\ db = [EmptyDb EXCEPT !.portfolios = {LocalPortfolio}]
  /\ supabase = [EmptySupabase EXCEPT !.portfolios = {CloudPortfolio}]
  /\ usedIds = [NoIds EXCEPT !["portfolio"] = {1, 2}]

\* App.tsx: initialize(isConfigured && !!user) on start; the pages are rendered
\* only once that load has finished
AppUseCloud == supabaseConfigured /\ Authenticated
Ready == ~state.isLoading

\* refreshData(): initialize(useCloud)
refreshData == Ready /\ initialize(useCloud)

DailyNext ==
  \/ initialize(AppUseCloud)
  \/ refreshData
  \/ Ready /\ \E data \in DailyData : createSnapshot(data)
  \/ Ready /\ \E s \in state.snapshots, changes \in DailyChanges :
                updateSnapshot(s.id, changes)
  \/ Ready /\ \E s \in state.snapshots : deleteSnapshot(s.id)
  \/ Ready /\ \E content \in DailyBackups : handleFileSelectJson(content)

SpecDaily == DailyInit /\ [][DailyNext]_vars

----------------------------------------------------------------------------
(* Properties of the daily snapshot store *)

\* the daily snapshot rows persisted in the active backend
PersistedDaily ==
  IF CloudActive
  THEN {rowToDailySnapshot(r) : r \in supabase.daily_snapshots}
  ELSE db.dailySnapshots

DailyWithKey(rows, portfolioId, date) ==
  {r \in rows : r.portfolioId = portfolioId /\ r.date = date}

SameDailyFields(a, b) ==
  /\ a.portfolioId = b.portfolioId /\ a.date = b.date
  /\ a.walletBalances = b.walletBalances /\ a.totalUsd = b.totalUsd
  /\ a.variationPercent = b.variationPercent /\ a.variationUsd = b.variationUsd

\* C1: a daily upsert on (P, D) leaves exactly one stored row for (P, D); the
\* row holds the values of that call and, when a row for (P, D) was stored
\* before the call, the id that row already had
C1_UpsertIdempotence ==
  [][(ret'.op = "createSnapshot" /\ ret'.ok) =>
       LET before == DailyWithKey(PersistedDaily, ret'.value.portfolioId, ret'.value.date)
           after == DailyWithKey(PersistedDaily', ret'.value.portfolioId, ret'.value.date)
       IN /\ Cardinality(after) = 1
          /\ \A r \in after : SameDailyFields(r, ret'.value)
          /\ before # {} => {r.id : r \in after} \subseteq {r.id : r \in before}]_vars

\* C2: getDailySnapshots(P) never holds two entries with the same date, in
\* either backend
C2_NoDuplicateDailyKeys ==
  \A p \in usedIds["portfolio"] :
    /\ \A a, b \in localDb_getDailySnapshots(db, p) : a.date = b.date => a = b
    /\ \A a, b \in supabaseData_getDailySnapshots(supabase, p) : a.date = b.date => a = b

\* C4: the snapshot createSnapshot resolves to, which it also puts in the
\* in-memory collection, carries the id of the row persisted for its key
C4_CreateReturnsEffectiveId ==
  (ret.op = "createSnapshot" /\ ret.ok) =>
     /\ ret.value \in state.snapshots
     /\ \E r \in DailyWithKey(PersistedDaily, ret.value.portfolioId, ret.value.date) :
          r.id = ret.value.id

\* the update of row id would give it the natural key of another stored row
DailyUpdateCollides(rows, id, changes) ==
  \E r \in rows, o \in rows :
    /\ r.id = id /\ o.id # id
    /\ "date" \in DOMAIN changes /\ changes.date # r.date
    /\ o.portfolioId = Merge(r, changes).portfolioId /\ o.date = changes.date

\* C7: an update that moves a daily snapshot onto the date of another row of
\* the same portfolio is rejected and leaves the stored rows and the
\* in-memory rows as they were
C7_UpdateConflictRejected ==
  [][(ret'.op = "updateSnapshot"
      /\ DailyUpdateCollides(PersistedDaily, ret'.value.id, ret'.value.changes)) =>
       /\ ~ret'.ok
       /\ PersistedDaily' = PersistedDaily
       /\ state'.snapshots = state.snapshots]_vars

----------------------------------------------------------------------------
(* The monthly snapshot operations of both backends *)

Months == 1..MaxMonth

\* what AddMonthlySnapshotModal.handleSubmit hands to the store: the same
\* fields for a new entry and, as changes, for an edited one
MonthlyData ==
  {[portfolioId |-> p, month |-> m, year |-> 2024, totalUsd |-> v, deltaUsd |-> 0,
    deltaPercent |-> 0, btcPrice |-> 0, ethPrice |-> 0] :
     p \in LoadedPortfolioIds, m \in Months, v \in Values}

\* backups holding at most one monthly snapshot
MonthlyBackups ==
  {[EmptyData EXCEPT !.monthlySnapshots =
      <<[id |-> i, portfolioId |-> LocalPortfolio.id, month |-> m, year |-> 2024,
         totalUsd |-> v, deltaUsd |-> 0, deltaPercent |-> 0, btcPrice |-> 0,
         ethPrice |-> 0]>>] :
     i \in Ids, m \in Months, v \in Values}

MonthlyNext ==
  \/ initialize(AppUseCloud)
  \/ refreshData
  \/ Ready /\ \E data \in MonthlyData : createMonthlySnapshot(data)
  \/ Ready /\ \E s \in state.monthlySnapshots, changes \in MonthlyData :
                updateMonthlySnapshot(s.id, changes)
  \/ Ready /\ \E s \in state.monthlySnapshots : deleteMonthlySnapshot(s.id)
  \/ Ready /\ \E content \in MonthlyBackups : handleFileSelectJson(content)

SpecMonthly == DailyInit /\ [][MonthlyNext]_vars

\* the monthly snapshot rows persisted in the active backend
PersistedMonthly ==
  IF CloudActive
  THEN {rowToMonthlySnapshot(r) : r \in supabase.monthly_snapshots}
  ELSE db.monthlySnapshots

MonthlyWithKey(rows, portfolioId, month) ==
  {r \in rows : r.portfolioId = portfolioId /\ r.month = month}

\* C3: after every operation each backend holds at most one monthly snapshot
\* per (portfolioId, month), and createMonthlySnapshot on a stored
\* (portfolioId, month) overwrites that row and keeps its id
C3_MonthlyUniqueness ==
  [][/\ \A a, b \in db'.monthlySnapshots :
          (a.portfolioId = b.portfolioId /\ a.month = b.month) => a = b
     /\ \A a, b \in supabase'.monthly_snapshots :
          (a.portfolio_id = b.portfolio_id /\ a.month = b.month) => a = b
     /\ (ret'.op = "createMonthlySnapshot" /\ ret'.ok) =>
          LET before == MonthlyWithKey(PersistedMonthly, ret'.value.portfolioId,
                                       ret'.value.month)
              after == MonthlyWithKey(PersistedMonthly', ret'.value.portfolioId,
                                      ret'.value.month)
          IN /\ \A r \in after : r.totalUsd = ret'.value.totalUsd
             /\ before # {} => {r.id : r \in after} \subseteq {r.id : r \in before}]_vars

----------------------------------------------------------------------------
(* Portfolios and their dependents: services/db.ts *)

\* Table.add with an id crypto.randomUUID() just produced
TableAdd(tbl, row) == IF TableGet(tbl, row.id) # {} THEN tbl ELSE tbl \cup {row}

localDb_createPortfolio(d, portfolio) ==
  [d EXCEPT !.portfolios = TableAdd(@, portfolio)]
localDb_createWallet(d, wallet) == [d EXCEPT !.wallets = TableAdd(@, wallet)]
localDb_createGoal(d, goal) == [d EXCEPT !.goals = TableAdd(@, goal)]
localDb_createJournalEntry(d, entry) ==
  [d EXCEPT !.journalEntries = TableAdd(@, entry)]
localDb_deleteGoal(d, id) == [d EXCEPT !.goals = TableDelete(@, id)]

\* goalService.markCompleted: update(id, { completedAt: new Date() }) at time t
localDb_markCompleted(d, id, t) ==
  [d EXCEPT !.goals = TableUpdate(@, id, [completedAt |-> t])]

\* the tables after the first k statements of the delete transaction
DeleteSteps(d, id, k) ==
  [d EXCEPT
     !.wallets = IF k >= 1 THEN {r \in @ : r.portfolioId # id} ELSE @,
     !.dailySnapshots = IF k >= 2 THEN {r \in @ : r.portfolioId # id} ELSE @,
     !.monthlySnapshots = IF k >= 3 THEN {r \in @ : r.portfolioId # id} ELSE @,
     !.portfolios = IF k >= 4 THEN TableDelete(@, id) ELSE @]

\* a variant of localDb_deletePortfolio whose statements are not wrapped in a
\* transaction: the writes made before the failing statement stay
localDb_deletePortfolioNoRollback(d, id, failAt) ==
  IF failAt = 0
  THEN [error |-> NoError, db |-> DeleteSteps(d, id, 4)]
  ELSE [error |-> "AbortError", db |-> DeleteSteps(d, id, failAt - 1)]

\* portfolioService.delete: one 'rw' transaction over portfolios, wallets,
\* dailySnapshots and monthlySnapshots; failAt is the statement that throws
\* (0: none), and a throw aborts the transaction, which undoes its writes
localDb_deletePortfolio(d, id, failAt) ==
  IF failAt = 0
  THEN [error |-> NoError, db |-> DeleteSteps(d, id, 4)]
  ELSE [error |-> "AbortError", db |-> d]

----------------------------------------------------------------------------
(* Portfolios and their dependents: services/supabaseData.ts *)

\* FOREIGN KEY portfolio_id REFERENCES portfolios(id), RLS WITH CHECK
ChildInsertAllowed(c, row) ==
  /\ row.user_id = user
  /\ \E p \in c.portfolios : p.id = row.portfolio_id

supabaseData_createPortfolio(c, portfolio, newId, t) ==
  IF ~Authenticated
  THEN [error |-> "Not authenticated", db |-> c, value |-> Undefined]
  ELSE LET row == [id |-> newId, user_id |-> user, name |-> portfolio.name,
                   color |-> portfolio.color, created_at |-> t]
       IN [error |-> NoError, db |-> [c EXCEPT !.portfolios = @ \cup {row}],
           value |-> rowToPortfolio(row)]

supabaseData_createWallet(c, wallet, newId) ==
  IF ~Authenticated
  THEN [error |-> "Not authenticated", db |-> c, value |-> Undefined]
  ELSE LET row == [id |-> newId, user_id |-> user, portfolio_id |-> wallet.portfolioId,
                   name |-> wallet.name, color |-> wallet.color]
       IN IF ChildInsertAllowed(c, row)
          THEN [error |-> NoError, db |-> [c EXCEPT !.wallets = @ \cup {row}],
                value |-> rowToWallet(row)]
          ELSE [error |-> "constraint", db |-> c, value |-> Undefined]

supabaseData_createGoal(c, goal, newId, t) ==
  IF ~Authenticated
  THEN [error |-> "Not authenticated", db |-> c, value |-> Undefined]
  ELSE LET row == [id |-> newId, user_id |-> user, portfolio_id |-> goal.portfolioId,
                   name |-> goal.name, target_value |-> Decimal2(goal.targetValue),
                   completed_at |-> Undefined, created_at |-> t]
       IN IF ChildInsertAllowed(c, row)
          THEN [error |-> NoError, db |-> [c EXCEPT !.goals = @ \cup {row}],
                value |-> rowToGoal(row)]
          ELSE [error |-> "constraint", db |-> c, value |-> Undefined]

supabaseData_createJournalEntry(c, entry, newId, t) ==
  IF ~Authenticated
  THEN [error |-> "Not authenticated", db |-> c, value |-> Undefined]
  ELSE LET row == [id |-> newId, user_id |-> user, portfolio_id |-> entry.portfolioId,
                   date |-> entry.date, title |-> entry.title,
                   created_at |-> t, updated_at |-> Undefined]
       IN IF ChildInsertAllowed(c, row)
          THEN [error |-> NoError, db |-> [c EXCEPT !.journal_entries = @ \cup {row}],
                value |-> rowToJournalEntry(row)]
          ELSE [error |-> "constraint", db |-> c, value |-> Undefined]

\* goalService.update: only the fields given are sent; RLS limits it to own rows
supabaseData_updateGoal(c, id, changes) ==
  [c EXCEPT !.goals =
     {IF r.id = id /\ r.user_id = user
      THEN [r EXCEPT !.name = Given(changes, "name", @),
                     !.target_value = Decimal2(Given(changes, "targetValue", @)),
                     !.completed_at = Given(changes, "completedAt", @)]
      ELSE r : r \in @}]

supabaseData_deleteGoal(c, id) ==
  [c EXCEPT !.goals = {r \in @ : ~(r.id = id /\ r.user_id = user)}]

\* delete().eq('id', id): one statement; every dependent table references
\* portfolios(id) ON DELETE CASCADE.  failed: the request returns an error
supabaseData_deletePortfolio(c, id, failed) ==
  IF failed \/ ~(\E p \in Visible(c.portfolios) : p.id = id)
  THEN [error |-> IF failed THEN "error" ELSE NoError, db |-> c]
  ELSE [error |-> NoError,
        db |-> [c EXCEPT !.portfolios = {r \in @ : r.id # id},
                         !.wallets = {r \in @ : r.portfolio_id # id},
                         !.daily_snapshots = {r \in @ : r.portfolio_id # id},
                         !.monthly_snapshots = {r \in @ : r.portfolio_id # id},
                         !.goals = {r \in @ : r.portfolio_id # id},
                         !.journal_entries = {r \in @ : r.portfolio_id # id}]]

----------------------------------------------------------------------------
(* stores/appStore.ts: portfolios, wallets, goals and journal entries *)

\* the wall clock new Date() reads never runs backwards
Tick ==
  /\ now < MaxClock
  /\ now' = now + 1
  /\ UNCHANGED <<inFlight, fileContent, useCloud, supabaseConfigured, user, db, supabase, state, usedIds, ret>>

createPortfolio(name, color) ==
  /\ HasFresh("portfolio")
  /\ LET t == now
         id == FreshId("portfolio")
     IN IF CloudActive
             THEN LET r == supabaseData_createPortfolio(
                             supabase, [name |-> name, color |-> color], id, t)
                  IN /\ supabase' = r.db
                     /\ db' = db
                     /\ IF r.error # NoError
                        THEN /\ usedIds' = usedIds
                             /\ state' = state
                             /\ ret' = Reject("createPortfolio", r.error)
                        ELSE /\ usedIds' = UseId("portfolio", {id})
                             /\ state' = [state EXCEPT
                                  !.portfolios = Append(@, r.value),
                                  !.activePortfolioId =
                                     IF @ = Undefined THEN r.value.id ELSE @]
                             /\ ret' = Resolve("createPortfolio", r.value)
             ELSE LET portfolio == [id |-> id, name |-> name, color |-> color,
                                    createdAt |-> t]
                  IN /\ db' = localDb_createPortfolio(db, portfolio)
                     /\ supabase' = supabase
                     /\ usedIds' = UseId("portfolio", {id})
                     /\ state' = [state EXCEPT
                          !.portfolios = Append(@, portfolio),
                          !.activePortfolioId = IF @ = Undefined THEN id ELSE @]
                     /\ ret' = Resolve("createPortfolio", portfolio)
  /\ UNCHANGED <<inFlight, fileContent, useCloud, supabaseConfigured, user, now>>

createWallet(data) ==
  /\ HasFresh("wallet")
  /\ LET id == FreshId("wallet")
     IN IF CloudActive
        THEN LET r == supabaseData_createWallet(supabase, data, id)
             IN /\ supabase' = r.db
                /\ db' = db
                /\ IF r.error # NoError
                   THEN /\ usedIds' = usedIds
                        /\ state' = state
                        /\ ret' = Reject("createWallet", r.error)
                   ELSE /\ usedIds' = UseId("wallet", {id})
                        /\ state' = [state EXCEPT !.wallets = @ \cup {r.value}]
                        /\ ret' = Resolve("createWallet", r.value)
        ELSE LET wallet == Merge(data, [id |-> id])
             IN /\ db' = localDb_createWallet(db, wallet)
                /\ supabase' = supabase
                /\ usedIds' = UseId("wallet", {id})
                /\ state' = [state EXCEPT !.wallets = @ \cup {wallet}]
                /\ ret' = Resolve("createWallet", wallet)
  /\ UNCHANGED <<inFlight, fileContent, useCloud, supabaseConfigured, user, now>>

createGoal(data) ==
  /\ HasFresh("goal")
  /\ LET t == now
         id == FreshId("goal")
     IN IF CloudActive
             THEN LET r == supabaseData_createGoal(supabase, data, id, t)
                  IN /\ supabase' = r.db
                     /\ db' = db
                     /\ IF r.error # NoError
                        THEN /\ usedIds' = usedIds
                             /\ state' = state
                             /\ ret' = Reject("createGoal", r.error)
                        ELSE /\ usedIds' = UseId("goal", {id})
                             /\ state' = [state EXCEPT !.goals = @ \cup {r.value}]
                             /\ ret' = Resolve("createGoal", r.value)
             ELSE LET goal == Merge(data, [id |-> id, createdAt |-> t,
                                           completedAt |-> Undefined])
                  IN /\ db' = localDb_createGoal(db, goal)
                     /\ supabase' = supabase
                     /\ usedIds' = UseId("goal", {id})
                     /\ state' = [state EXCEPT !.goals = @ \cup {goal}]
                     /\ ret' = Resolve("createGoal", goal)
  /\ UNCHANGED <<inFlight, fileContent, useCloud, supabaseConfigured, user, now>>

deleteGoal(id) ==
  /\ IF CloudActive
     THEN /\ supabase' = supabaseData_deleteGoal(supabase, id)
          /\ db' = db
     ELSE /\ db' = localDb_deleteGoal(db, id)
          /\ supabase' = supabase
  /\ state' = [state EXCEPT !.goals = {g \in @ : g.id # id}]
  /\ ret' = Resolve("deleteGoal", id)
  /\ UNCHANGED <<inFlight, fileContent, useCloud, supabaseConfigured, user, usedIds, now>>

\* completedAt is read from the clock by the store; the local service reads
\* the clock again for the row it writes
completeGoal(id) ==
  /\ LET completedAt == now
     IN /\ IF CloudActive
           THEN /\ supabase' = supabaseData_updateGoal(
                                 supabase, id, [completedAt |-> completedAt])
                /\ db' = db
                /\ now' = now
           ELSE \E t \in completedAt..MaxClock :
                  /\ db' = localDb_markCompleted(db, id, t)
                  /\ supabase' = supabase
                  /\ now' = t
        /\ state' = [state EXCEPT !.goals =
                       {IF g.id = id THEN Merge(g, [completedAt |-> completedAt])
                        ELSE g : g \in @}]
  /\ ret' = Resolve("completeGoal", id)
  /\ UNCHANGED <<inFlight, fileContent, useCloud, supabaseConfigured, user, usedIds>>

createJournalEntry(data) ==
  /\ HasFresh("journal")
  /\ LET t == now
         id == FreshId("journal")
     IN IF CloudActive
             THEN LET r == supabaseData_createJournalEntry(supabase, data, id, t)
                  IN /\ supabase' = r.db
                     /\ db' = db
                     /\ IF r.error # NoError
                        THEN /\ usedIds' = usedIds
                             /\ state' = state
                             /\ ret' = Reject("createJournalEntry", r.error)
                        ELSE /\ usedIds' = UseId("journal", {id})
                             /\ state' = [state EXCEPT
                                  !.journalEntries = @ \cup {r.value}]
                             /\ ret' = Resolve("createJournalEntry", r.value)
             ELSE LET entry == Merge(data, [id |-> id, createdAt |-> t,
                                            updatedAt |-> Undefined])
                  IN /\ db' = localDb_createJournalEntry(db, entry)
                     /\ supabase' = supabase
                     /\ usedIds' = UseId("journal", {id})
                     /\ state' = [state EXCEPT !.journalEntries = @ \cup {entry}]
                     /\ ret' = Resolve("createJournalEntry", entry)
  /\ UNCHANGED <<inFlight, fileContent, useCloud, supabaseConfigured, user, now>>

\* a variant of WithoutPortfolio that leaves activePortfolioId as it is
WithoutPortfolioKeepingActive(st, id) ==
  [st EXCEPT
     !.portfolios = SelectSeq(@, LAMBDA p : p.id # id),
     !.wallets = {w \in @ : w.portfolioId # id},
     !.snapshots = {x \in @ : x.portfolioId # id},
     !.monthlySnapshots = {x \in @ : x.portfolioId # id},
     !.goals = {g \in @ : g.portfolioId # id},
     !.journalEntries = {e \in @ : e.portfolioId # id}]

\* the in-memory collections once the service call has returned
WithoutPortfolio(st, id) ==
  LET newPortfolios == SelectSeq(st.portfolios, LAMBDA p : p.id # id)
  IN [st EXCEPT
        !.portfolios = newPortfolios,
        !.wallets = {w \in @ : w.portfolioId # id},
        !.snapshots = {x \in @ : x.portfolioId # id},
        !.monthlySnapshots = {x \in @ : x.portfolioId # id},
        !.goals = {g \in @ : g.portfolioId # id},
        !.journalEntries = {e \in @ : e.portfolioId # id},
        !.activePortfolioId =
           IF @ = id
           THEN IF Len(newPortfolios) > 0 THEN newPortfolios[1].id ELSE Undefined
           ELSE @]

\* failAt: the statement of the service call that fails (0: none); the
\* service's error leaves the await before the store is touched
deletePortfolio(id, failAt) ==
  /\ LET r == IF CloudActive
              THEN supabaseData_deletePortfolio(supabase, id, failAt # 0)
              ELSE localDb_deletePortfolio(db, id, failAt)
     IN /\ IF CloudActive
           THEN supabase' = r.db /\ db' = db
           ELSE db' = r.db /\ supabase' = supabase
        /\ IF r.error # NoError
           THEN /\ state' = state
                /\ ret' = Reject("deletePortfolio", r.error)
           ELSE /\ state' = WithoutPortfolio(state, id)
                /\ ret' = Resolve("deletePortfolio", id)
  /\ UNCHANGED <<inFlight, fileContent, useCloud, supabaseConfigured, user, usedIds, now>>

----------------------------------------------------------------------------
(* Deleting a portfolio with dependents of every kind *)

\* what the wallet, snapshot, goal and journal forms hand to the store
WalletData ==
  {[portfolioId |-> p, name |-> "Ledger", color |-> "#3b82f6"] :
     p \in LoadedPortfolioIds}
GoalData ==
  {[portfolioId |-> p, name |-> "Goal", targetValue |-> v] :
     p \in LoadedPortfolioIds, v \in {MaxValue}}
JournalData ==
  {[portfolioId |-> p, date |-> d, title |-> "Note"] :
     p \in LoadedPortfolioIds, d \in {MaxDate}}
CascadeDailyData == {x \in DailyData : x.date = MaxDate /\ x.totalUsd = MaxValue}
CascadeMonthlyData == {x \in MonthlyData : x.month = MaxMonth /\ x.totalUsd = MaxValue}

\* the statements of the local delete transaction
DeleteStatements == 4

\* rows of one kind created in a run
MaxDependents == 1
Room(kind) == Cardinality(usedIds[kind]) < MaxDependents

CascadeNext ==
  \/ initialize(AppUseCloud)
  \/ refreshData
  \/ Ready /\ createPortfolio("Second", "#a855f7")
  \/ Ready /\ Room("wallet") /\ \E data \in WalletData : createWallet(data)
  \/ Ready /\ Room("snapshot") /\ \E data \in CascadeDailyData : createSnapshot(data)
  \/ Ready /\ Room("monthly") /\ \E data \in CascadeMonthlyData : createMonthlySnapshot(data)
  \/ Ready /\ Room("goal") /\ \E data \in GoalData : createGoal(data)
  \/ Ready /\ Room("journal") /\ \E data \in JournalData : createJournalEntry(data)
  \/ Ready /\ \E id \in LoadedPortfolioIds, failAt \in 0..DeleteStatements :
                deletePortfolio(id, failAt)

SpecCascade == DailyInit /\ [][CascadeNext]_vars

\* the rows of the backend in use, out of the tables d (local) and c (remote),
\* that belong to portfolio id, as <<kind, row id>>
DependentsOf(d, c, id) ==
  IF CloudActive
  THEN {<<"wallet", r.id>> : r \in {x \in c.wallets : x.portfolio_id = id}}
       \cup {<<"daily", r.id>> : r \in {x \in c.daily_snapshots : x.portfolio_id = id}}
       \cup {<<"monthly", r.id>> : r \in {x \in c.monthly_snapshots : x.portfolio_id = id}}
       \cup {<<"goal", r.id>> : r \in {x \in c.goals : x.portfolio_id = id}}
       \cup {<<"journal", r.id>> : r \in {x \in c.journal_entries : x.portfolio_id = id}}
  ELSE {<<"wallet", r.id>> : r \in {x \in d.wallets : x.portfolioId = id}}
       \cup {<<"daily", r.id>> : r \in {x \in d.dailySnapshots : x.portfolioId = id}}
       \cup {<<"monthly", r.id>> : r \in {x \in d.monthlySnapshots : x.portfolioId = id}}
       \cup {<<"goal", r.id>> : r \in {x \in d.goals : x.portfolioId = id}}
       \cup {<<"journal", r.id>> : r \in {x \in d.journalEntries : x.portfolioId = id}}

PortfolioStored(d, c, id) ==
  IF CloudActive THEN \E p \in c.portfolios : p.id = id
  ELSE \E p \in d.portfolios : p.id = id

\* what a reload of the store shows of portfolio id
ReloadedOf(st, id) ==
  {p \in Range(st.portfolios) : p.id = id}
  \cup {r \in st.wallets \cup st.snapshots \cup st.monthlySnapshots
               \cup st.goals \cup st.journalEntries : r.portfolioId = id}

\* C5: once deletePortfolio(id) has completed, the backend in use stores no
\* portfolio with that id and no wallet, daily snapshot, monthly snapshot,
\* goal or journal entry of it, and a reload returns none of them
C5_CascadeCompleteness ==
  [][(ret'.op = "deletePortfolio" /\ ret'.ok) =>
       /\ ~PortfolioStored(db', supabase', ret'.value)
       /\ DependentsOf(db', supabase', ret'.value) = {}
       /\ ReloadedOf(AfterInitialize(useCloud, db', supabase'), ret'.value) = {}]_vars

\* C6: deletePortfolio is all or nothing: a call that reports failure has
\* removed no row, and no call removes the portfolio row while leaving
\* dependents of it behind
C6_DeleteAtomic ==
  [][ret'.op = "deletePortfolio" =>
       /\ ~ret'.ok => (db' = db /\ supabase' = supabase /\ state' = state)
       /\ \A id \in Ids :
            (PortfolioStored(db, supabase, id) /\ ~PortfolioStored(db', supabase', id))
              => DependentsOf(db', supabase', id) = {}]_vars

----------------------------------------------------------------------------
(* Completing goals *)

GoalNext ==
  \/ initialize(AppUseCloud)
  \/ refreshData
  \/ Tick
  \/ Ready /\ \E data \in GoalData : createGoal(data)
  \/ Ready /\ \E g \in state.goals : completeGoal(g.id)
  \/ Ready /\ \E g \in state.goals : deleteGoal(g.id)

SpecGoal == DailyInit /\ [][GoalNext]_vars

\* the goals of the backend in use, out of the tables d (local) and c (remote)
PersistedGoals(d, c) ==
  IF CloudActive THEN {rowToGoal(r) : r \in c.goals} ELSE d.goals

\* every goal of `after` that `before` holds with completedAt set has kept it
KeepsCompletedAt(before, after) ==
  \A g \in before, h \in after :
     (g.id = h.id /\ g.completedAt # Undefined) => h.completedAt = g.completedAt

\* C8: completeGoal(id) on a goal whose completedAt is set leaves the
\* timestamp as it was, in the persisted row and in the store's goals
C8_CompleteGoalIdempotent ==
  [][ret'.op = "completeGoal" =>
       /\ KeepsCompletedAt(PersistedGoals(db, supabase), PersistedGoals(db', supabase'))
       /\ KeepsCompletedAt(state.goals, state'.goals)]_vars

----------------------------------------------------------------------------
(* Importing backups into the local database *)

MaxBackupId == 2

BackupTables ==
  {"portfolios", "wallets", "snapshots", "monthlySnapshots", "goals",
   "journalEntries", "marketEvents"}

\* the rows of a backup file: importData reads nothing of a row but its id
BackupRows == {[id |-> i, name |-> v] : i \in 1..MaxBackupId, v \in {"Main", "Renamed"}}
BackupRowSeqs ==
  {<<>>} \cup {<<r>> : r \in BackupRows} \cup {<<r, q>> : r \in BackupRows, q \in BackupRows}

\* backups with rows of one entity type
BackupPayloads ==
  {[t \in BackupTables |-> IF t = k THEN rows ELSE <<>>] :
     k \in BackupTables, rows \in BackupRowSeqs}

\* exportService.importData(data) of the backup file picked
importData ==
  /\ fileContent.kind = "backup"
  /\ db' = exportService_importData(db, fileContent.content)
  /\ usedIds' = SeenIds(usedIds, fileContent.content)
  /\ ret' = Resolve("importData", Undefined)
  /\ UNCHANGED <<inFlight, fileContent, useCloud, supabaseConfigured, user, supabase, state, now>>

\* a database an earlier import has filled, and a backup file to import
BackupInit ==
  /\ InitCommon
  /\ supabase = EmptySupabase
  /\ \E earlier \in BackupPayloads :
       /\ db = exportService_importData(EmptyDb, earlier)
       /\ usedIds = SeenIds(NoIds, earlier)
  /\ fileContent \in [kind : {"backup"}, content : BackupPayloads]

BackupNext == importData

SpecBackup == BackupInit /\ [][BackupNext]_vars

\* the table of the database a field of the backup is imported into
TableOf(d, t) == IF t = "snapshots" THEN d.dailySnapshots ELSE d[t]

\* C9: importData leaves every stored row as it was and adds only payload
\* rows whose id was not stored, so importing the same payload again changes
\* nothing
C9_ImportAdditive ==
  [][ret'.op = "importData" =>
       /\ \A t \in BackupTables :
            /\ TableOf(db, t) \subseteq TableOf(db', t)
            /\ \A r \in TableOf(db', t) \ TableOf(db, t) :
                 /\ r \in Range(fileContent.content[t])
                 /\ TableGet(TableOf(db, t), r.id) = {}
       /\ exportService_importData(db', fileContent.content) = db']_vars

\* an import has run whose payload named an id that was stored with other
\* content, and the stored row is still there
C9_Witness ==
  /\ ret.op = "importData"
  /\ \E t \in BackupTables :
       /\ Len(fileContent.content[t]) = 1
       /\ \E r \in TableOf(db, t) :
            r.id = fileContent.content[t][1].id /\ r # fileContent.content[t][1]

----------------------------------------------------------------------------
(* utils/importParser.ts: snapshot rows from CSV and JSON files *)

MaxFileRows == 5

\* the date texts of a file by the shape parseDate tells apart: YYYY-MM-DD,
\* DD/MM/YYYY, a text new Date() cannot read, and (JSON only) no date at all
DateText(fmt) ==
  IF fmt = "iso" THEN [fmt |-> "iso", parts |-> <<2024, 1, 15>>]
  ELSE IF fmt = "dmy" THEN [fmt |-> "dmy", parts |-> <<15, 1, 2024>>]
  ELSE [fmt |-> fmt, parts |-> <<>>]

\* no date: null, and the '' parseJSON puts in its place (both falsy)
NoDate == [fmt |-> "null", parts |-> <<>>]

\* the ISO text of a date, or null
parseDate(value) ==
  IF value.fmt = "iso" THEN value
  ELSE IF value.fmt = "dmy"
       THEN [fmt |-> "iso",
             parts |-> <<value.parts[3], value.parts[2], value.parts[1]>>]
       ELSE NoDate

\* the wallet columns of a row: an empty cell gives no entry
WalletsOf(cell) == IF cell = 0 THEN <<>> ELSE <<[name |-> "Ledger", value |-> cell]>>

\* parseCSV on the data lines under a header with a date and a wallet column:
\* a line whose date does not parse is skipped
parseCSV(lines) ==
  LET kept == SelectSeq(lines, LAMBDA l : parseDate(l.date) # NoDate)
  IN [i \in 1..Len(kept) |->
        [date |-> parseDate(kept[i].date), wallets |-> WalletsOf(kept[i].cell),
         total |-> kept[i].cell]]

\* parseJSON on an array: a date that does not parse becomes '' (falsy, here
\* NoDate) and the item is filtered out; parseDate of an item without a
\* date throws a TypeError
parseJSON(items) ==
  IF \E i \in 1..Len(items) : items[i].date.fmt = "missing"
  THEN [error |-> "TypeError", data |-> <<>>]
  ELSE LET mapped == [i \in 1..Len(items) |->
                        [date |-> parseDate(items[i].date),
                         wallets |-> WalletsOf(items[i].cell),
                         total |-> items[i].cell]]
       IN [error |-> NoError,
           data |-> SelectSeq(mapped, LAMBDA x : x.date # NoDate)]

\* the errors of the snapshots from index i on, `Row ${index + 1}: ...`
RECURSIVE ErrorsFrom(_, _)
ErrorsFrom(snapshots, i) ==
  IF i > Len(snapshots) THEN <<>>
  ELSE IF snapshots[i].date = NoDate
       THEN <<[row |-> i, msg |-> "Invalid date"]>> \o ErrorsFrom(snapshots, i + 1)
       ELSE IF Len(snapshots[i].wallets) = 0
            THEN <<[row |-> i, msg |-> "No wallet data"]>>
                 \o ErrorsFrom(snapshots, i + 1)
            ELSE ErrorsFrom(snapshots, i + 1)

validateImportedSnapshots(snapshots) ==
  [valid |-> SelectSeq(snapshots,
                       LAMBDA x : x.date # NoDate /\ Len(x.wallets) # 0),
   errors |-> ErrorsFrom(snapshots, 1)]

\* Settings.handleFileSelect on a .csv file, up to the validated rows
importCsvSnapshots ==
  /\ fileContent.kind = "csv"
  /\ LET r == validateImportedSnapshots(parseCSV(fileContent.content))
     IN ret' = Resolve("importSnapshots", [valid |-> r.valid, errors |-> r.errors])
  /\ UNCHANGED <<inFlight, fileContent, useCloud, supabaseConfigured, user, db, supabase, state,
                 usedIds, now>>

\* Settings.handleFileSelect on a .json file holding an array of snapshots
importJsonSnapshots ==
  /\ fileContent.kind = "json"
  /\ LET parsed == parseJSON(fileContent.content)
         r == validateImportedSnapshots(parsed.data)
     IN ret' = IF parsed.error # NoError
               THEN Reject("importSnapshots", parsed.error)
               ELSE Resolve("importSnapshots", [valid |-> r.valid, errors |-> r.errors])
  /\ UNCHANGED <<inFlight, fileContent, useCloud, supabaseConfigured, user, db, supabase, state,
                 usedIds, now>>

CsvLines ==
  UNION {[1..n -> {[date |-> DateText(f), cell |-> c] :
                     f \in {"iso", "dmy", "text"}, c \in {0, MaxValue}}] :
           n \in 1..MaxFileRows}
JsonItems ==
  UNION {[1..n -> {[date |-> DateText(f), cell |-> c] :
                     f \in {"iso", "text", "missing"}, c \in {0, MaxValue}}] :
           n \in 1..MaxFileRows}

CsvInit ==
  /\ InitCommon
  /\ db = [EmptyDb EXCEPT !.portfolios = {LocalPortfolio}]
  /\ supabase = [EmptySupabase EXCEPT !.portfolios = {CloudPortfolio}]
  /\ usedIds = [NoIds EXCEPT !["portfolio"] = {1, 2}]
  /\ fileContent \in [kind : {"csv"}, content : CsvLines]
                     \cup [kind : {"json"}, content : JsonItems]

CsvNext ==
  \/ initialize(AppUseCloud)
  \/ Ready /\ importCsvSnapshots
  \/ Ready /\ importJsonSnapshots

SpecCsv == CsvInit /\ [][CsvNext]_vars

\* the positions of the input rows whose date cannot be parsed
BadDateRows(rows) ==
  {i \in 1..Len(rows) : rows[i].date.fmt \notin {"iso", "dmy"}}

\* C10: an import of rows never aborts; every input row is in valid or is
\* reported in errors, a row with an unparseable date as "Invalid date"
\* under its 1-based position in the input
C10_ImportPartition ==
  ret.op = "importSnapshots" =>
    /\ ret.ok
    /\ Len(ret.value.valid) + Len(ret.value.errors) = Len(fileContent.content)
    /\ \A i \in 1..Len(fileContent.content) :
         i \in BadDateRows(fileContent.content)
           <=> [row |-> i, msg |-> "Invalid date"] \in Range(ret.value.errors)

----------------------------------------------------------------------------
(* utils/calculations.ts: performance metrics.  A date is a day number (ISO *)
(* date strings compare as the days do); a percentage is kept as the exact  *)
(* quotient num / den                                                       *)

Frac(n, d) == [num |-> n, den |-> d]

\* a variant of calculateVariation without the previous === 0 branch
calculateVariationUnguarded(current, previous) ==
  [amount |-> current - previous, percent |-> Frac((current - previous) * 100, previous)]

calculateVariation(current, previous) ==
  IF previous = 0
  THEN [amount |-> current, percent |-> Frac(IF current > 0 THEN 100 ELSE 0, 1)]
  ELSE [amount |-> current - previous,
        percent |-> Frac((current - previous) * 100, previous)]

\* { amount: 0, percent: 0 }
NoVariation == [amount |-> 0, percent |-> Frac(0, 1)]

\* [...snapshots].sort((a, b) => b.date.localeCompare(a.date)): newest first,
\* snapshots of one date in their input order (Array.prototype.sort is stable)
RECURSIVE SortNewestFirst(_)
SortNewestFirst(snapshots) ==
  IF snapshots = <<>> THEN <<>>
  ELSE LET x == Head(snapshots)
           rest == SortNewestFirst(Tail(snapshots))
           k == Cardinality({i \in 1..Len(rest) : rest[i].date > x.date})
       IN SubSeq(rest, 1, k) \o <<x>> \o SubSeq(rest, k + 1, Len(rest))

\* the ATH loop from snapshot i on, over the input in its own order
RECURSIVE AthLoop(_, _, _)
AthLoop(snapshots, i, best) ==
  IF i > Len(snapshots) THEN best
  ELSE AthLoop(snapshots, i + 1,
               IF snapshots[i].totalUsd > best.ath
               THEN [ath |-> snapshots[i].totalUsd, athDate |-> snapshots[i].date]
               ELSE best)

\* getSnapshotDaysAgo(days): <<the snapshot>> or <<>>.  setDate() moves the
\* local date and toISOString() prints the UTC one, so where a daylight
\* saving change lies in between the target comes out dstShift days early
getSnapshotDaysAgo(sorted, days, dstShift) ==
  LET latest == sorted[1]
      targetDate == latest.date - days - dstShift
      hits == {i \in 1..Len(sorted) :
                 sorted[i].date <= targetDate /\ sorted[i].date # latest.date}
      first == {i \in hits : /\ \A j \in hits : sorted[j].date <= sorted[i].date
                             /\ \A j \in hits : j < i => sorted[j].date < sorted[i].date}
  IN IF hits # {} THEN <<sorted[CHOOSE i \in first : TRUE]>>
     ELSE IF Len(sorted) > 1 THEN <<sorted[Len(sorted)]>>
     ELSE <<>>

\* a variant of getPreviousSnapshot returning the oldest snapshot
getOldestSnapshot(sorted) == IF Len(sorted) > 1 THEN <<sorted[Len(sorted)]>> ELSE <<>>

\* sorted.length > 1 ? sorted[1] : null
getPreviousSnapshot(sorted) == IF Len(sorted) > 1 THEN <<sorted[2]>> ELSE <<>>

VariationAgainst(total, reference) ==
  IF reference # <<>> THEN calculateVariation(total, reference[1].totalUsd)
  ELSE NoVariation

calculatePerformanceMetrics(snapshots, dstShift) ==
  IF Len(snapshots) = 0
  THEN [total |-> 0, change24h |-> 0, change24hPercent |-> Frac(0, 1),
        change7d |-> 0, change7dPercent |-> Frac(0, 1),
        change30d |-> 0, change30dPercent |-> Frac(0, 1),
        ath |-> 0, athDate |-> Undefined]
  ELSE LET sorted == SortNewestFirst(snapshots)
           total == sorted[1].totalUsd
           best == AthLoop(snapshots, 1, [ath |-> 0, athDate |-> Undefined])
           variation24h == VariationAgainst(total, getPreviousSnapshot(sorted))
           variation7d == VariationAgainst(total, getSnapshotDaysAgo(sorted, 7, dstShift))
           variation30d == VariationAgainst(total, getSnapshotDaysAgo(sorted, 30, dstShift))
       IN [total |-> total,
           change24h |-> variation24h.amount, change24hPercent |-> variation24h.percent,
           change7d |-> variation7d.amount, change7dPercent |-> variation7d.percent,
           change30d |-> variation30d.amount, change30dPercent |-> variation30d.percent,
           ath |-> best.ath, athDate |-> best.athDate]

----------------------------------------------------------------------------
(* pages/Dashboard.tsx: the metrics of the active portfolio *)

\* snapshots.filter(s => s.portfolioId === activePortfolioId)
ActiveSnapshots == {x \in state.snapshots : x.portfolioId = state.activePortfolioId}

\* the orders the store's array can hold a set of rows in
Orders(S) ==
  {f \in [1..Cardinality(S) -> S] : \A i, j \in DOMAIN f : i # j => f[i] # f[j]}

\* whether a daylight saving change lies between a date and its target
DstShifts == {0, 1}

\* useMemo(() => calculatePerformanceMetrics(activeSnapshots))
Dashboard_metrics(activeSnapshots, dstShift) ==
  /\ ret' = Resolve("calculatePerformanceMetrics",
                    calculatePerformanceMetrics(activeSnapshots, dstShift))
  /\ UNCHANGED <<inFlight, fileContent, useCloud, supabaseConfigured, user, db, supabase, state,
                 usedIds, now>>

\* the days and totals of the stored series: consecutive days and days
\* 7 and 30 days before a later one
SeriesDays == {1, 2, 3, 10, 33}
SeriesTotals == -1..MaxValue
SeriesSizes == {0, 1, 2, 3}

SeriesRow(i, day, total) ==
  [id |-> i, portfolioId |-> LocalPortfolio.id, date |-> day, walletBalances |-> <<>>,
   totalUsd |-> total, variationPercent |-> 0, variationUsd |-> 0]

\* local databases holding one portfolio and a daily series
MetricsInit ==
  /\ InitCommon
  /\ fileContent = NoFile
  /\ supabase = [EmptySupabase EXCEPT !.portfolios = {CloudPortfolio}]
  /\ \E n \in SeriesSizes :
       \E f \in [1..n -> SeriesDays \X SeriesTotals] :
          /\ db = [EmptyDb EXCEPT
                     !.portfolios = {LocalPortfolio},
                     !.dailySnapshots = {SeriesRow(i, f[i][1], f[i][2]) : i \in 1..n}]
          /\ usedIds = [NoIds EXCEPT !["portfolio"] = {1, 2}, !["snapshot"] = 1..n]

MetricsNext ==
  \/ initialize(AppUseCloud)
  \/ Ready /\ \E activeSnapshots \in Orders(ActiveSnapshots), dstShift \in DstShifts :
                Dashboard_metrics(activeSnapshots, dstShift)

SpecMetrics == MetricsInit /\ [][MetricsNext]_vars

\* C11: for a non-empty series, ath is the greatest totalUsd of the series
\* and athDate the date of a snapshot with that total
C11_AthIsMaximum ==
  (ret.op = "calculatePerformanceMetrics" /\ ActiveSnapshots # {}) =>
    /\ \A x \in ActiveSnapshots : x.totalUsd <= ret.value.ath
    /\ \E x \in ActiveSnapshots :
         x.totalUsd = ret.value.ath /\ x.date = ret.value.athDate

\* C12: calculateVariation returns amount = current - previous; against a
\* previous of 0 the percent is 100 for a positive current and 0 otherwise,
\* and no percent has the divisor 0
C12_VariationAgainstZero ==
  \A a, b \in state.snapshots :
     LET v == calculateVariation(a.totalUsd, b.totalUsd)
     IN /\ v.amount = a.totalUsd - b.totalUsd
        /\ v.percent.den # 0
        /\ b.totalUsd = 0 =>
             v.percent = Frac(IF a.totalUsd > 0 THEN 100 ELSE 0, 1)

\* the metrics of a series whose latest total is negative and whose previous
\* total is 0 have been computed
C12_Witness ==
  /\ ret.op = "calculatePerformanceMetrics"
  /\ \E a, b \in ActiveSnapshots :
       /\ Cardinality(ActiveSnapshots) = 2
       /\ a.date > b.date /\ a.totalUsd < 0 /\ b.totalUsd = 0
       /\ ret.value.change24h = a.totalUsd
       /\ ret.value.change24hPercent = Frac(0, 1)

\* the snapshots of S a series can call its latest: those of the greatest date
LatestOf(S) == {x \in S : \A y \in S : y.date <= x.date}

\* the snapshots immediately before latest in date order
BeforeLatest(S, latest) ==
  {x \in S \ {latest} : \A y \in S \ {latest} : y.date <= x.date}

\* change24h and its percent are the variation of total against reference
Is24hAgainst(metrics, latest, reference) ==
  LET v == calculateVariation(latest.totalUsd, reference.totalUsd)
  IN /\ metrics.total = latest.totalUsd
     /\ metrics.change24h = v.amount
     /\ metrics.change24hPercent = v.percent

\* C13: for a series of two snapshots or more, whatever its order, change24h
\* is the variation of total, the totalUsd of the snapshot of the greatest
\* date, against the snapshot immediately before it in date order; for a
\* series of one snapshot it is 0
C13_Change24hAgainstPrevious ==
  ret.op = "calculatePerformanceMetrics" =>
    /\ Cardinality(ActiveSnapshots) >= 2 =>
         \E latest \in LatestOf(ActiveSnapshots) :
            \E reference \in BeforeLatest(ActiveSnapshots, latest) :
               Is24hAgainst(ret.value, latest, reference)
    /\ Cardinality(ActiveSnapshots) = 1 =>
         ret.value.change24h = 0 /\ ret.value.change24hPercent = Frac(0, 1)

\* the metrics of three snapshots on days 33, 10 and an earlier one, of three
\* different totals, have been computed
C13_Witness ==
  /\ ret.op = "calculatePerformanceMetrics"
  /\ \E a, b, c \in ActiveSnapshots :
       /\ Cardinality(ActiveSnapshots) = 3
       /\ a.date = 33 /\ b.date = 10 /\ c.date < 10
       /\ a.totalUsd # b.totalUsd /\ b.totalUsd # c.totalUsd /\ a.totalUsd # c.totalUsd
       /\ ret.value.change24h = a.totalUsd - b.totalUsd

\* the references the 7 or 30 day change of S may use: the snapshots of the
\* greatest date at or before latest.date - days, the latest's date excluded,
\* and the oldest ones when there is none
ReferenceDaysAgo(S, latest, days) ==
  LET atOrBefore == {x \in S : x.date <= latest.date - days /\ x.date # latest.date}
  IN IF atOrBefore # {}
     THEN {x \in atOrBefore : \A y \in atOrBefore : y.date <= x.date}
     ELSE {x \in S \ {latest} : \A y \in S : x.date <= y.date}

\* C14: change7d and change30d are the variation of total against the
\* snapshot of the greatest date at or before the latest date minus 7 and 30
\* days, against the oldest snapshot when there is none, never against the
\* latest itself, and 0 for a series of one snapshot
C14_ChangeAgainstDaysAgo ==
  ret.op = "calculatePerformanceMetrics" =>
    /\ Cardinality(ActiveSnapshots) >= 2 =>
         \E latest \in LatestOf(ActiveSnapshots) :
            /\ ret.value.total = latest.totalUsd
            /\ \E r7 \in ReferenceDaysAgo(ActiveSnapshots, latest, 7) :
                  LET v == calculateVariation(latest.totalUsd, r7.totalUsd)
                  IN ret.value.change7d = v.amount /\ ret.value.change7dPercent = v.percent
            /\ \E r30 \in ReferenceDaysAgo(ActiveSnapshots, latest, 30) :
                  LET v == calculateVariation(latest.totalUsd, r30.totalUsd)
                  IN ret.value.change30d = v.amount /\ ret.value.change30dPercent = v.percent
    /\ Cardinality(ActiveSnapshots) = 1 =>
         /\ ret.value.change7d = 0 /\ ret.value.change7dPercent = Frac(0, 1)
         /\ ret.value.change30d = 0 /\ ret.value.change30dPercent = Frac(0, 1)

----------------------------------------------------------------------------
(* utils/calculations.ts: the allocation of a snapshot over its wallets *)

\* wallets.find(w => w.id === balance.walletId), with the defaults of a
\* wallet that is not found
WalletNamed(wallets, walletId) ==
  LET found == {w \in wallets : w.id = walletId}
  IN IF found = {} THEN [name |-> "Unknown", color |-> "#888888"]
     ELSE LET w == CHOOSE x \in found : TRUE
          IN [name |-> w.name, color |-> w.color]

\* the entry the map builds for a balance
AllocationOf(balance, total, wallets) ==
  [walletId |-> balance.walletId,
   walletName |-> WalletNamed(wallets, balance.walletId).name,
   value |-> balance.valueUsd,
   percentage |-> Frac(balance.valueUsd * 100, total),
   color |-> WalletNamed(wallets, balance.walletId).color]

\* a variant of calculateWalletAllocations that keeps the entries of value 0
calculateWalletAllocationsFromZero(snapshot, wallets) ==
  IF snapshot.totalUsd = 0 THEN <<>>
  ELSE SelectSeq([i \in 1..Len(snapshot.walletBalances) |->
                    AllocationOf(snapshot.walletBalances[i], snapshot.totalUsd, wallets)],
                 LAMBDA a : a.value >= 0)

calculateWalletAllocations(snapshot, wallets) ==
  IF snapshot.totalUsd = 0 THEN <<>>
  ELSE SelectSeq([i \in 1..Len(snapshot.walletBalances) |->
                    AllocationOf(snapshot.walletBalances[i], snapshot.totalUsd, wallets)],
                 LAMBDA a : a.value > 0)

(* pages/Dashboard.tsx: the allocation of the latest snapshot *)

\* wallets.filter(w => w.portfolioId === activePortfolioId)
ActiveWallets == {w \in state.wallets : w.portfolioId = state.activePortfolioId}

\* the latest snapshot and its allocations; no snapshot gives []
Dashboard_allocations(activeSnapshots) ==
  /\ ret' = IF Len(activeSnapshots) = 0
            THEN Resolve("calculateWalletAllocations",
                         [latestSnapshot |-> <<>>, allocations |-> <<>>])
            ELSE LET latestSnapshot == SortNewestFirst(activeSnapshots)[1]
                 IN Resolve("calculateWalletAllocations",
                            [latestSnapshot |-> <<latestSnapshot>>,
                             allocations |->
                               calculateWalletAllocations(latestSnapshot, ActiveWallets)])
  /\ UNCHANGED <<inFlight, fileContent, useCloud, supabaseConfigured, user, db, supabase, state,
                 usedIds, now>>

\* the balances of a stored snapshot: up to three wallets, the third one not
\* among the wallets of the portfolio, of negative, zero and positive values
BalanceValues == -1..MaxValue
BalanceSizes == {0, 1, 2, 3}
BalancesOf(f) == [i \in DOMAIN f |-> [walletId |-> i, valueUsd |-> f[i]]]
AllocTotals == -1..(MaxValue + 1)

LedgerWallet(id, portfolioId) ==
  [id |-> id, portfolioId |-> portfolioId, name |-> "Ledger", color |-> "#3b82f6"]

\* a local database holding one portfolio, its two wallets and at most one
\* daily snapshot
AllocInit ==
  /\ InitCommon
  /\ fileContent = NoFile
  /\ supabase = [EmptySupabase EXCEPT !.portfolios = {CloudPortfolio}]
  /\ \E n \in BalanceSizes, total \in AllocTotals, stored \in BOOLEAN :
       \E f \in [1..n -> BalanceValues] :
          /\ db = [EmptyDb EXCEPT
                     !.portfolios = {LocalPortfolio},
                     !.wallets = {LedgerWallet(1, LocalPortfolio.id),
                                  LedgerWallet(2, LocalPortfolio.id)},
                     !.dailySnapshots =
                        IF stored
                        THEN {[id |-> 1, portfolioId |-> LocalPortfolio.id, date |-> 1,
                               walletBalances |-> BalancesOf(f), totalUsd |-> total,
                               variationPercent |-> 0, variationUsd |-> 0]}
                        ELSE {}]
          /\ usedIds = [NoIds EXCEPT !["portfolio"] = {1, 2}, !["wallet"] = {1, 2},
                                     !["snapshot"] = IF stored THEN {1} ELSE {}]

AllocNext ==
  \/ initialize(AppUseCloud)
  \/ Ready /\ \E activeSnapshots \in Orders(ActiveSnapshots) :
                Dashboard_allocations(activeSnapshots)

SpecAlloc == AllocInit /\ [][AllocNext]_vars

\* C15: calculateWalletAllocations returns no entry for a snapshot of total 0
\* and otherwise one entry for each balance of a value above 0, in the order
\* of the snapshot, and none for a balance of 0 or less
C15_AllocationEntries ==
  (ret.op = "calculateWalletAllocations" /\ ret.value.latestSnapshot # <<>>) =>
    LET snapshot == ret.value.latestSnapshot[1]
        positive == SelectSeq(snapshot.walletBalances, LAMBDA b : b.valueUsd > 0)
        allocations == ret.value.allocations
    IN IF snapshot.totalUsd = 0 THEN allocations = <<>>
       ELSE /\ Len(allocations) = Len(positive)
            /\ \A i \in 1..Len(positive) :
                  /\ allocations[i].walletId = positive[i].walletId
                  /\ allocations[i].value = positive[i].valueUsd

\* the allocations of a snapshot of a total other than 0 with a negative, a
\* zero and a positive balance have been computed
C15_Witness ==
  /\ ret.op = "calculateWalletAllocations"
  /\ ret.value.latestSnapshot # <<>>
  /\ LET snapshot == ret.value.latestSnapshot[1]
     IN /\ snapshot.totalUsd # 0
        /\ Len(snapshot.walletBalances) = 3
        /\ snapshot.walletBalances[1].valueUsd < 0
        /\ snapshot.walletBalances[2].valueUsd = 0
        /\ snapshot.walletBalances[3].valueUsd > 0
        /\ Len(ret.value.allocations) = 1
        /\ ret.value.allocations[1].walletName = "Unknown"

----------------------------------------------------------------------------
(* The handlers that write daily snapshots: the snapshot form and the CSV
   import.  A handler that awaits the store several times works on World,
   the databases and the store between two awaits. *)

World == [db |-> db, supabase |-> supabase, state |-> state, usedIds |-> usedIds]

\* stores/appStore.ts createWallet on the world w: the world after the call
\* and the error it throws
createWalletIn(w, data) ==
  LET id == Min(Ids \ w.usedIds["wallet"])
  IN IF CloudActive
     THEN LET r == supabaseData_createWallet(w.supabase, data, id)
          IN IF r.error # NoError
             THEN [w |-> w, error |-> r.error, value |-> Undefined]
             ELSE [w |-> [w EXCEPT !.supabase = r.db,
                                   !.usedIds["wallet"] = @ \cup {id},
                                   !.state.wallets = @ \cup {r.value}],
                   error |-> NoError, value |-> r.value]
     ELSE LET wallet == Merge(data, [id |-> id])
          IN [w |-> [w EXCEPT !.db = localDb_createWallet(@, wallet),
                              !.usedIds["wallet"] = @ \cup {id},
                              !.state.wallets = @ \cup {wallet}],
              error |-> NoError, value |-> wallet]

\* stores/appStore.ts createSnapshot on the world w
createSnapshotIn(w, data) ==
  LET id == Min(Ids \ w.usedIds["snapshot"])
  IN IF CloudActive
     THEN LET r == supabaseData_createDailySnapshot(w.supabase, data, id)
          IN IF r.error # NoError
             THEN [w |-> w, error |-> r.error, value |-> Undefined]
             ELSE [w |-> [w EXCEPT
                            !.supabase = r.db,
                            !.usedIds["snapshot"] = IF r.inserted THEN @ \cup {id} ELSE @,
                            !.state.snapshots =
                               {x \in @ : ~(x.portfolioId = r.value.portfolioId
                                            /\ x.date = r.value.date)} \cup {r.value}],
                   error |-> NoError, value |-> r.value]
     ELSE LET snapshot == Merge(data, [id |-> id])
              r == localDb_createDailySnapshot(w.db, snapshot)
          IN [w |-> [w EXCEPT
                       !.db = r.db,
                       !.usedIds["snapshot"] = @ \cup {id},
                       !.state.snapshots =
                          {x \in @ : ~(x.portfolioId = snapshot.portfolioId
                                       /\ x.date = snapshot.date)} \cup {snapshot}],
              error |-> NoError, value |-> snapshot]

\* walletBalances.reduce((sum, b) => sum + b.valueUsd, 0)
RECURSIVE SumOfBalances(_)
SumOfBalances(walletBalances) ==
  IF Len(walletBalances) = 0 THEN 0
  ELSE walletBalances[1].valueUsd + SumOfBalances(Tail(walletBalances))

(* components/modals: AddSnapshotModal *)

\* snapshots.filter(portfolioId === activePortfolioId && date < date), sorted
\* newest first: the candidates for prevSnapshots[0]
PrevSnapshots(date) ==
  LET earlier == {x \in ActiveSnapshots : x.date < date}
  IN {x \in earlier : \A y \in earlier : y.date <= x.date}

\* the snapshotData handleSubmit builds from the date and the wallet values
\* typed in, given the snapshot prevSnapshots[0] (<<>> when there is none)
SnapshotData(date, walletValues, prevSnapshot) ==
  LET activeWallets == SortById(ActiveWallets)
      walletBalances == [i \in 1..Len(activeWallets) |->
                           [walletId |-> activeWallets[i].id,
                            valueUsd |-> walletValues[activeWallets[i].id]]]
      totalUsd == SumOfBalances(walletBalances)
      variation == VariationAgainst(totalUsd, prevSnapshot)
  IN [portfolioId |-> state.activePortfolioId, date |-> date,
      walletBalances |-> walletBalances, totalUsd |-> totalUsd,
      variationUsd |-> variation.amount, variationPercent |-> variation.percent]

\* handleSubmit; no page opens the modal with a snapshot to edit, so isEdit
\* is false.  Without a portfolio or a wallet it only shows an error
AddSnapshotModal_handleSubmit(date, walletValues, prevSnapshot) ==
  /\ state.activePortfolioId # Undefined
  /\ ActiveWallets # {}
  /\ createSnapshot(SnapshotData(date, walletValues, prevSnapshot))

(* pages/Settings.tsx: handleFileSelect on a .csv file *)

\* the day number of an ISO date of January 2024
IsoDay(date) == date.parts[3]

\* the `Create missing wallets` loop over rows that all name the wallet
\* "Ledger": walletId is the id walletMap holds for it, Undefined if none
createMissingWallets(w, valid, walletId) ==
  IF Len(valid) = 0 \/ walletId # Undefined
  THEN [w |-> w, error |-> NoError, walletId |-> walletId]
  ELSE LET r == createWalletIn(w, [portfolioId |-> state.activePortfolioId,
                                   name |-> "Ledger", color |-> "#3b82f6"])
       IN [w |-> r.w, error |-> r.error,
           walletId |-> IF r.error = NoError THEN r.value.id ELSE Undefined]

\* the `Create snapshots` loop from row i on; a createSnapshot that throws
\* ends the loop
RECURSIVE createSnapshotsFrom(_, _, _, _)
createSnapshotsFrom(w, valid, i, walletId) ==
  IF i > Len(valid) THEN [w |-> w, error |-> NoError]
  ELSE LET walletBalances == [k \in 1..Len(valid[i].wallets) |->
                                [walletId |-> walletId,
                                 valueUsd |-> valid[i].wallets[k].value]]
           r == createSnapshotIn(w, [portfolioId |-> state.activePortfolioId,
                                     date |-> IsoDay(valid[i].date),
                                     walletBalances |-> walletBalances,
                                     totalUsd |-> SumOfBalances(walletBalances),
                                     variationPercent |-> Frac(0, 1),
                                     variationUsd |-> 0])
       IN IF r.error # NoError THEN [w |-> r.w, error |-> r.error]
          ELSE createSnapshotsFrom(r.w, valid, i + 1, walletId)

\* the ids walletMap can hold for "ledger": the last active wallet of that
\* name in the order of the store's array
LedgerIds ==
  IF \E x \in ActiveWallets : x.name = "Ledger"
  THEN {x.id : x \in {y \in ActiveWallets : y.name = "Ledger"}}
  ELSE {Undefined}

handleFileSelectCsv(walletId) ==
  /\ fileContent.kind = "csv"
  /\ LET r == validateImportedSnapshots(parseCSV(fileContent.content))
     IN /\ Cardinality(Ids \ usedIds["snapshot"]) >= Len(r.valid)
        /\ HasFresh("wallet")
        /\ IF state.activePortfolioId = Undefined
           THEN /\ ret' = Reject("handleFileSelectCsv", "Select a portfolio")
                /\ UNCHANGED <<db, supabase, state, usedIds>>
           ELSE IF Len(r.errors) > 0 /\ Len(r.valid) = 0
           THEN /\ ret' = Reject("handleFileSelectCsv", "Import failed")
                /\ UNCHANGED <<db, supabase, state, usedIds>>
           ELSE LET made == createMissingWallets(World, r.valid, walletId)
                    done == IF made.error # NoError THEN [w |-> made.w, error |-> made.error]
                            ELSE createSnapshotsFrom(made.w, r.valid, 1, made.walletId)
                IN /\ db' = done.w.db
                   /\ supabase' = done.w.supabase
                   /\ state' = done.w.state
                   /\ usedIds' = done.w.usedIds
                   /\ ret' = IF done.error # NoError
                             THEN Reject("handleFileSelectCsv", done.error)
                             ELSE Resolve("handleFileSelectCsv", Len(r.valid))
  /\ UNCHANGED <<inFlight, fileContent, useCloud, supabaseConfigured, user, now>>

\* the values typed in the form, and the files picked: one or two lines, each
\* dated in January 2024 with a filled wallet cell or not dated
FormValues == 0..MaxValue
JanuaryLines ==
  {[date |-> [fmt |-> "iso", parts |-> <<2024, 1, d>>], cell |-> MaxValue - d + 1] :
     d \in Dates}
  \cup {[date |-> DateText("text"), cell |-> MaxValue]}
JanuaryFiles == UNION {[1..n -> JanuaryLines] : n \in {1, 2}}

\* a portfolio in each database, with its wallet "Ledger" or without a wallet
FormInit ==
  /\ InitCommon
  /\ \E hasWallet \in BOOLEAN :
       /\ db = [EmptyDb EXCEPT
                  !.portfolios = {LocalPortfolio},
                  !.wallets = IF hasWallet THEN {LedgerWallet(1, LocalPortfolio.id)}
                              ELSE {}]
       /\ supabase = [EmptySupabase EXCEPT
                        !.portfolios = {CloudPortfolio},
                        !.wallets = IF hasWallet
                                    THEN {[id |-> 2, user_id |-> CloudPortfolio.user_id,
                                           portfolio_id |-> CloudPortfolio.id,
                                           name |-> "Ledger", color |-> "#3b82f6"]}
                                    ELSE {}]
       /\ usedIds = [NoIds EXCEPT !["portfolio"] = {1, 2},
                                  !["wallet"] = IF hasWallet THEN {1, 2} ELSE {}]
  /\ fileContent \in [kind : {"csv"}, content : JanuaryFiles]

\* prevSnapshots[0] as handleSubmit finds it for a date
PrevChoices(date) ==
  IF PrevSnapshots(date) = {} THEN {<<>>} ELSE {<<x>> : x \in PrevSnapshots(date)}

FormNext ==
  \/ initialize(AppUseCloud)
  \/ Ready /\ \E date \in Dates :
                \E walletValues \in [{x.id : x \in ActiveWallets} -> FormValues],
                   prevSnapshot \in PrevChoices(date) :
                   AddSnapshotModal_handleSubmit(date, walletValues, prevSnapshot)
  \/ Ready /\ \E walletId \in LedgerIds : handleFileSelectCsv(walletId)

SpecForm == FormInit /\ [][FormNext]_vars

\* two percentages are the same number
FracEq(a, b) == a.num * b.den = b.num * a.den

\* the variation stored in s is the one of its total against reference
StoresVariationAgainst(s, reference) ==
  LET v == VariationAgainst(s.totalUsd, reference)
  IN s.variationUsd = v.amount /\ FracEq(s.variationPercent, v.percent)

\* C18: a daily snapshot the form or the CSV import writes stores the
\* variation of its total against the snapshot of its portfolio of the
\* greatest date before its own at the time of the write, and 0 and 0 when
\* no snapshot is dated before it
C18_VariationAgainstEarlier ==
  [][ret'.op \in {"createSnapshot", "handleFileSelectCsv"} =>
       \A s \in state'.snapshots \ state.snapshots :
          LET before == {q \in state.snapshots :
                           q.portfolioId = s.portfolioId /\ q.date < s.date}
              written == {q \in state'.snapshots :
                            q.portfolioId = s.portfolioId /\ q.date < s.date}
          IN \/ before = {} /\ StoresVariationAgainst(s, <<>>)
             \/ \E P \in before \cup written :
                   /\ \A q \in before : q.date <= P.date
                   /\ StoresVariationAgainst(s, <<P>>)]_vars

----------------------------------------------------------------------------
(* Every way a daily snapshot gets stored: the form, the CSV import, the
   store's updateSnapshot with some of the fields, and a backup *)

\* the changes updateSnapshot accepts: Partial<DailySnapshot>
PartialChanges == {[totalUsd |-> v] : v \in Values}

\* backups holding one daily snapshot, as exportData writes them or edited
TotalsBackups ==
  {[EmptyData EXCEPT !.snapshots =
      <<[id |-> MaxId, portfolioId |-> LocalPortfolio.id, date |-> 1,
         walletBalances |-> <<[walletId |-> 1, valueUsd |-> v]>>,
         totalUsd |-> total, variationPercent |-> Frac(0, 1), variationUsd |-> 0]>>] :
     v \in Values, total \in Values}

TotalsNext ==
  \/ FormNext
  \/ Ready /\ \E s \in state.snapshots, changes \in PartialChanges :
                updateSnapshot(s.id, changes)
  \/ Ready /\ \E content \in TotalsBackups : handleFileSelectJson(content)
  \/ Ready /\ \E activeSnapshots \in Orders(ActiveSnapshots) :
                Dashboard_allocations(activeSnapshots)

\* the files of one line
TotalsInit == FormInit /\ Len(fileContent.content) = 1

SpecTotals == TotalsInit /\ [][TotalsNext]_vars

\* the sum of the percentages of allocations is 100
RECURSIVE SumOfValues(_)
SumOfValues(allocations) ==
  IF Len(allocations) = 0 THEN 0
  ELSE allocations[1].value + SumOfValues(Tail(allocations))
PercentagesSumTo100(allocations, total) == SumOfValues(allocations) * 100 = 100 * total

\* C16: for every stored daily snapshot of a total above 0 whose balances
\* are all positive, the percentages of calculateWalletAllocations sum to 100
C16_AllocationsSumTo100 ==
  \A s \in state.snapshots \cup db.dailySnapshots :
     (s.totalUsd > 0
      /\ \A i \in 1..Len(s.walletBalances) : s.walletBalances[i].valueUsd > 0)
       => PercentagesSumTo100(calculateWalletAllocations(s, state.wallets), s.totalUsd)

----------------------------------------------------------------------------
(* components/modals: AddMonthlySnapshotModal.  A month "YYYY-MM" is the
   pair <<year, month number>>. *)

\* new Date(year, monthNum - 2), printed as YYYY-MM: month index -1 is
\* December of the year before
PrevMonthOf(month) ==
  LET monthIndex == month[2] - 2
  IN IF monthIndex < 0 THEN <<month[1] - 1, monthIndex + 12 + 1>>
     ELSE <<month[1], monthIndex + 1>>

\* calculateDelta: prevSnapshot is what monthlySnapshots.find returned for the
\* previous month, <<>> for undefined
calculateDelta(month, total, prevSnapshot) ==
  IF state.activePortfolioId = Undefined \/ total = 0
  THEN [deltaUsd |-> 0, deltaPercent |-> Frac(0, 1)]
  ELSE IF prevSnapshot = <<>> \/ prevSnapshot[1].totalUsd = 0
       THEN [deltaUsd |-> 0, deltaPercent |-> Frac(0, 1)]
       ELSE [deltaUsd |-> total - prevSnapshot[1].totalUsd,
             deltaPercent |-> Frac((total - prevSnapshot[1].totalUsd) * 100,
                                   prevSnapshot[1].totalUsd)]

\* the results monthlySnapshots.find can give for the month before `month`
PrevMonthChoices(month) ==
  LET hits == {x \in state.monthlySnapshots :
                 x.portfolioId = state.activePortfolioId /\ x.month = PrevMonthOf(month)}
  IN IF hits = {} THEN {<<>>} ELSE {<<x>> : x \in hits}

MonthlySnapshotData(month, total, prevSnapshot) ==
  LET delta == calculateDelta(month, total, prevSnapshot)
  IN [portfolioId |-> state.activePortfolioId, month |-> month, year |-> month[1],
      totalUsd |-> total, deltaUsd |-> delta.deltaUsd,
      deltaPercent |-> delta.deltaPercent, btcPrice |-> 0, ethPrice |-> 0]

\* handleSubmit of a new entry; a total of 0 or less, or no portfolio, only
\* shows an error
AddMonthlySnapshotModal_handleSubmit(month, total, prevSnapshot) ==
  /\ total > 0
  /\ state.activePortfolioId # Undefined
  /\ createMonthlySnapshot(MonthlySnapshotData(month, total, prevSnapshot))

\* handleSubmit on the entry editSnapshot
AddMonthlySnapshotModal_handleSubmitEdit(editSnapshot, month, total, prevSnapshot) ==
  /\ total > 0
  /\ state.activePortfolioId # Undefined
  /\ updateMonthlySnapshot(editSnapshot.id, MonthlySnapshotData(month, total, prevSnapshot))

(* pages/MonthlyView.tsx *)

ActiveMonthlySnapshots ==
  {x \in state.monthlySnapshots : x.portfolioId = state.activePortfolioId}

\* activeMonthlySnapshots.find(s => s.month === monthStr) ?? null, over the
\* store's array
FindMonth(activeMonthlySnapshots, monthStr) ==
  LET hits == {i \in 1..Len(activeMonthlySnapshots) :
                 activeMonthlySnapshots[i].month = monthStr}
  IN IF hits = {} THEN <<>> ELSE <<activeMonthlySnapshots[Min(hits)]>>

monthlyData(activeMonthlySnapshots, currentYear) ==
  [month \in 1..12 |->
     [month |-> month, monthStr |-> <<currentYear, month>>,
      snapshot |-> FindMonth(activeMonthlySnapshots, <<currentYear, month>>)]]

\* m.snapshot?.field ?? 0 for each field of the chart
chartData(data) ==
  [i \in 1..Len(data) |->
     IF data[i].snapshot = <<>>
     THEN [month |-> data[i].monthStr, value |-> 0, delta |-> 0,
           deltaPercent |-> Frac(0, 1), btcPrice |-> 0, ethPrice |-> 0]
     ELSE [month |-> data[i].monthStr,
           value |-> data[i].snapshot[1].totalUsd,
           delta |-> data[i].snapshot[1].deltaUsd,
           deltaPercent |-> data[i].snapshot[1].deltaPercent,
           btcPrice |-> data[i].snapshot[1].btcPrice,
           ethPrice |-> data[i].snapshot[1].ethPrice]]

\* chartData.some(d => d.value > 0)
hasChartData(chart) == \E i \in 1..Len(chart) : chart[i].value > 0

\* the page for the year currentYear
MonthlyView(activeMonthlySnapshots, currentYear) ==
  /\ LET data == monthlyData(activeMonthlySnapshots, currentYear)
     IN ret' = Resolve("MonthlyView",
                       [currentYear |-> currentYear, monthlyData |-> data,
                        chartData |-> chartData(data),
                        hasChartData |-> hasChartData(chartData(data))])
  /\ UNCHANGED <<inFlight, fileContent, useCloud, supabaseConfigured, user, db, supabase, state,
                 usedIds, now>>

\* the months and years at hand: December 2023 to February 2024
FormMonths == {<<2023, 12>>, <<2024, 1>>, <<2024, 2>>}
ViewYears == {2023, 2024}

\* the changes the store's updateMonthlySnapshot accepts besides the ones of
\* the form: Partial<MonthlySnapshot>, here a total of 0
PartialMonthlyChanges == {[totalUsd |-> 0]}

\* a portfolio in each database, with or without a daily snapshot
MonthlyViewInit ==
  /\ InitCommon
  /\ fileContent = NoFile
  /\ supabase = [EmptySupabase EXCEPT !.portfolios = {CloudPortfolio}]
  /\ \E hasDaily \in BOOLEAN :
       /\ db = [EmptyDb EXCEPT
                  !.portfolios = {LocalPortfolio},
                  !.dailySnapshots =
                     IF hasDaily
                     THEN {[id |-> 1, portfolioId |-> LocalPortfolio.id, date |-> 1,
                            walletBalances |-> <<>>, totalUsd |-> MaxValue,
                            variationPercent |-> Frac(0, 1), variationUsd |-> 0]}
                     ELSE {}]
       /\ usedIds = [NoIds EXCEPT !["portfolio"] = {1, 2},
                                  !["snapshot"] = IF hasDaily THEN {1} ELSE {}]

MonthlyViewNext ==
  \/ initialize(AppUseCloud)
  \/ Ready /\ \E month \in FormMonths, total \in FormValues :
                \E prevSnapshot \in PrevMonthChoices(month) :
                   AddMonthlySnapshotModal_handleSubmit(month, total, prevSnapshot)
  \/ Ready /\ \E editSnapshot \in ActiveMonthlySnapshots, total \in FormValues :
                \E prevSnapshot \in PrevMonthChoices(editSnapshot.month) :
                   AddMonthlySnapshotModal_handleSubmitEdit(editSnapshot, editSnapshot.month,
                                                            total, prevSnapshot)
  \/ Ready /\ \E s \in state.monthlySnapshots, changes \in PartialMonthlyChanges :
                updateMonthlySnapshot(s.id, changes)
  \/ Ready /\ \E activeMonthlySnapshots \in Orders(ActiveMonthlySnapshots),
                 currentYear \in ViewYears :
                MonthlyView(activeMonthlySnapshots, currentYear)

SpecMonthlyView == MonthlyViewInit /\ [][MonthlyViewNext]_vars

\* what an entry of the chart shows besides the name of its month
ChartValuesOf(entry) ==
  <<entry.value, entry.delta, entry.deltaPercent, entry.btcPrice, entry.ethPrice>>

\* C17: the monthly series of a year has 12 entries, January to December in
\* order; a month without a monthly snapshot has no snapshot in the table
\* data, and in the chart data it differs from every month with a snapshot
C17_TwelveMonthsNoDataDistinct ==
  ret.op = "MonthlyView" =>
    LET data == ret.value.monthlyData
        chart == ret.value.chartData
        recorded(i) == \E x \in ActiveMonthlySnapshots :
                          x.month = <<ret.value.currentYear, i>>
    IN /\ Len(data) = 12 /\ Len(chart) = 12
       /\ \A i \in 1..12 :
             /\ data[i].month = i
             /\ data[i].monthStr = <<ret.value.currentYear, i>>
             /\ chart[i].month = <<ret.value.currentYear, i>>
             /\ (data[i].snapshot = <<>>) <=> ~recorded(i)
       /\ \A i, j \in 1..12 :
             (~recorded(i) /\ recorded(j)) => ChartValuesOf(chart[i]) # ChartValuesOf(chart[j])

\* the month before a month of the calendar
CalendarPrev(month) ==
  IF month[2] = 1 THEN <<month[1] - 1, 12>> ELSE <<month[1], month[2] - 1>>

\* C19: a monthly snapshot the form writes for a month stores as deltaUsd its
\* total minus the total of the monthly snapshot of its portfolio for the
\* month before (December of the year before for January), and 0 when there
\* is none
C19_DeltaAgainstPreviousMonth ==
  [][(\/ ret'.op = "createMonthlySnapshot"
      \/ ret'.op = "updateMonthlySnapshot" /\ "month" \in DOMAIN ret'.value.changes) =>
       \A s \in state'.monthlySnapshots \ state.monthlySnapshots :
          LET prev == {q \in state.monthlySnapshots :
                         q.portfolioId = s.portfolioId /\ q.month = CalendarPrev(s.month)}
          IN IF prev = {} THEN s.deltaUsd = 0
             ELSE \E q \in prev : s.deltaUsd = s.totalUsd - q.totalUsd]_vars

----------------------------------------------------------------------------
(* Two tenants on one Supabase project.  The identity context hands the
   signed-in user to App, whose effect reloads the store for that user. *)

Tenants == {1, 2}

\* App.tsx: the effect on a change of user runs
\* initialize(isConfigured && !!user), which loads as the new user
onAuthStateChange(u) ==
  /\ u # user
  /\ user' = u
  /\ useCloud' = (supabaseConfigured /\ u # Undefined)
  /\ UNCHANGED <<inFlight, fileContent, supabaseConfigured, db, supabase, usedIds, now>>
  /\ state' = AfterInitialize(supabaseConfigured /\ u # Undefined, db, supabase)'
  /\ ret' = Resolve("initialize", Undefined)

\* the second tenant's portfolio
OtherPortfolio ==
  [id |-> 3, user_id |-> 2, name |-> "Main", color |-> "#3b82f6", created_at |-> 1]

TenantDailyRow(id, p) ==
  [id |-> id, user_id |-> p.user_id, portfolio_id |-> p.id, date |-> 1,
   wallet_balances |-> Balances(MaxValue), total_usd |-> MaxValue,
   variation_percent |-> 0, variation_usd |-> 0]

\* a project holding a portfolio and a daily snapshot of each tenant
TenantInit ==
  /\ InitCommon
  /\ supabaseConfigured
  /\ fileContent = NoFile
  /\ db = [EmptyDb EXCEPT !.portfolios = {LocalPortfolio}]
  /\ supabase = [EmptySupabase EXCEPT
                   !.portfolios = {CloudPortfolio, OtherPortfolio},
                   !.daily_snapshots = {TenantDailyRow(1, CloudPortfolio),
                                        TenantDailyRow(2, OtherPortfolio)}]
  /\ usedIds = [NoIds EXCEPT !["portfolio"] = {1, 2, 3}, !["snapshot"] = {1, 2}]

\* the ids a store operation can be called with, stored under any tenant
PortfolioIds == {p.id : p \in supabase.portfolios \cup db.portfolios}

TenantNext ==
  \/ initialize(AppUseCloud)
  \/ \E u \in Tenants \cup {Undefined} : onAuthStateChange(u)
  \/ Ready /\ Cardinality(usedIds["wallet"]) < MaxDependents
           /\ \E p \in PortfolioIds :
                createWallet([portfolioId |-> p, name |-> "Ledger", color |-> "#3b82f6"])
  \/ Ready /\ \E p \in PortfolioIds, d \in {MaxDate} :
                createSnapshot([portfolioId |-> p, date |-> d,
                                walletBalances |-> Balances(MaxValue),
                                totalUsd |-> MaxValue, variationPercent |-> 0,
                                variationUsd |-> 0])
  \/ Ready /\ \E id \in Ids : deleteSnapshot(id)
  \/ Ready /\ \E id \in PortfolioIds : deletePortfolio(id, 0)

SpecTenant == TenantInit /\ [][TenantNext]_vars

RemoteTables == {"portfolios", "wallets", "daily_snapshots"}

\* the rows of a remote table owned by other tenants than u
RowsOfOthers(c, t, u) == {r \in c[t] : r.user_id # u}

\* every row the store holds after a remote load is owned by the user
LoadedRowsOwned ==
  (CloudActive /\ Authenticated /\ ~state.isLoading) =>
    /\ \A x \in Range(state.portfolios) :
          \A r \in supabase.portfolios : r.id = x.id => r.user_id = user
    /\ \A x \in state.wallets :
          \A r \in supabase.wallets : r.id = x.id => r.user_id = user
    /\ \A x \in state.snapshots :
          \A r \in supabase.daily_snapshots : r.id = x.id => r.user_id = user

\* C20: whatever the store operations of two tenants, the rows the store
\* reads while a tenant is active are that tenant's, and no operation a
\* tenant issues changes or deletes a row of the other tenant
C20_TenantIsolation ==
  [][/\ LoadedRowsOwned'
     /\ \A t \in RemoteTables :
           RowsOfOthers(supabase', t, user) = RowsOfOthers(supabase, t, user)]_vars

----------------------------------------------------------------------------
(* The remote services while nobody is signed in.  supabase.auth.getUser()
   asks the auth server: once the session has expired or was ended from
   another tab it resolves to no user, whatever the store still holds. *)

\* the session ends at the auth server; the store is not told
sessionExpired ==
  /\ Authenticated
  /\ user' = Undefined
  /\ ret' = Resolve("sessionExpired", Undefined)
  /\ UNCHANGED <<inFlight, fileContent, useCloud, supabaseConfigured, db, supabase, state, usedIds, now>>

\* a project holding the user's portfolio
SessionInit ==
  /\ InitCommon
  /\ supabaseConfigured
  /\ fileContent = NoFile
  /\ db = [EmptyDb EXCEPT !.portfolios = {LocalPortfolio}]
  /\ supabase = [EmptySupabase EXCEPT !.portfolios = {CloudPortfolio}]
  /\ usedIds = [NoIds EXCEPT !["portfolio"] = {1, 2}]

SessionNext ==
  \/ initialize(AppUseCloud)
  \/ refreshData
  \/ sessionExpired
  \/ Ready /\ Room("wallet") /\ \E data \in WalletData : createWallet(data)
  \/ Ready /\ Room("snapshot") /\ \E data \in CascadeDailyData : createSnapshot(data)
  \/ Ready /\ \E s \in state.snapshots : deleteSnapshot(s.id)
  \/ Ready /\ Room("monthly") /\ \E data \in CascadeMonthlyData : createMonthlySnapshot(data)
  \/ Ready /\ \E s \in state.monthlySnapshots, changes \in CascadeMonthlyData :
                updateMonthlySnapshot(s.id, changes)
  \/ Ready /\ \E s \in state.monthlySnapshots : deleteMonthlySnapshot(s.id)
  \/ Ready /\ Room("goal") /\ \E data \in GoalData : createGoal(data)
  \/ Ready /\ \E g \in state.goals : completeGoal(g.id)
  \/ Ready /\ \E g \in state.goals : deleteGoal(g.id)
  \/ Ready /\ \E id \in LoadedPortfolioIds : deletePortfolio(id, 0)

SpecSession == SessionInit /\ [][SessionNext]_vars

\* the store actions, each of which calls one remote service in cloud mode
StoreActions ==
  {"createPortfolio", "createWallet", "createSnapshot", "deleteSnapshot",
   "createMonthlySnapshot", "updateMonthlySnapshot", "deleteMonthlySnapshot",
   "createGoal", "completeGoal", "deleteGoal", "deletePortfolio"}

\* C21: a call of the remote store made while nobody is signed in fails with
\* "Not authenticated" and leaves the remote tables as they were
C21_UnauthenticatedCallsFail ==
  [][(CloudActive /\ ~Authenticated /\ ret'.op \in StoreActions) =>
       /\ ~ret'.ok
       /\ ret'.error = "Not authenticated"
       /\ supabase' = supabase]_vars

----------------------------------------------------------------------------
(* Store actions whose service call fails.  failed: the request (remote) or
   the IndexedDB write (local) throws *)

localDb_updatePortfolio(d, id, changes) ==
  [d EXCEPT !.portfolios = TableUpdate(@, id, changes)]

\* update({name, color}).eq('id', id), under the UPDATE policy
supabaseData_updatePortfolio(c, id, changes) ==
  [c EXCEPT !.portfolios =
     {IF r.id = id /\ r.user_id = user
      THEN [r EXCEPT !.name = Given(changes, "name", @),
                     !.color = Given(changes, "color", @)]
      ELSE r : r \in @}]

updatePortfolio(id, changes, failed) ==
  /\ IF failed
     THEN /\ UNCHANGED <<db, supabase, state>>
          /\ ret' = Reject("updatePortfolio", "error")
     ELSE /\ IF CloudActive
             THEN /\ supabase' = supabaseData_updatePortfolio(supabase, id, changes)
                  /\ db' = db
             ELSE /\ db' = localDb_updatePortfolio(db, id, changes)
                  /\ supabase' = supabase
          /\ state' = [state EXCEPT !.portfolios =
                         [i \in DOMAIN @ |->
                            IF @[i].id = id THEN Merge(@[i], changes) ELSE @[i]]]
          /\ ret' = Resolve("updatePortfolio", [id |-> id, changes |-> changes])
  /\ UNCHANGED <<inFlight, fileContent, useCloud, supabaseConfigured, user, usedIds, now>>

localDb_deleteWallet(d, id) == [d EXCEPT !.wallets = TableDelete(@, id)]

\* delete().eq('id', id), under the DELETE policy
supabaseData_deleteWallet(c, id) ==
  [c EXCEPT !.wallets = {r \in @ : ~(r.id = id /\ r.user_id = user)}]

\* a variant of deleteWallet that also drops the balances of the wallet from
\* the snapshots in memory
deleteWalletWithBalances(id, failed) ==
  /\ IF failed
     THEN /\ UNCHANGED <<db, supabase, state>>
          /\ ret' = Reject("deleteWallet", "error")
     ELSE /\ IF CloudActive
             THEN /\ supabase' = supabaseData_deleteWallet(supabase, id)
                  /\ db' = db
             ELSE /\ db' = localDb_deleteWallet(db, id)
                  /\ supabase' = supabase
          /\ state' = [state EXCEPT
                         !.wallets = {w \in @ : w.id # id},
                         !.snapshots =
                            {[x EXCEPT !.walletBalances =
                                 SelectSeq(@, LAMBDA b : b.walletId # id)] : x \in @}]
          /\ ret' = Resolve("deleteWallet", id)
  /\ UNCHANGED <<inFlight, fileContent, useCloud, supabaseConfigured, user, usedIds, now>>

deleteWallet(id, failed) ==
  /\ IF failed
     THEN /\ UNCHANGED <<db, supabase, state>>
          /\ ret' = Reject("deleteWallet", "error")
     ELSE /\ IF CloudActive
             THEN /\ supabase' = supabaseData_deleteWallet(supabase, id)
                  /\ db' = db
             ELSE /\ db' = localDb_deleteWallet(db, id)
                  /\ supabase' = supabase
          /\ state' = [state EXCEPT !.wallets = {w \in @ : w.id # id}]
          /\ ret' = Resolve("deleteWallet", id)
  /\ UNCHANGED <<inFlight, fileContent, useCloud, supabaseConfigured, user, usedIds, now>>

PortfolioChanges == {[name |-> "Renamed"]}

FailureNext ==
  \/ initialize(AppUseCloud)
  \/ refreshData
  \/ sessionExpired
  \/ Ready /\ Room("wallet") /\ \E data \in WalletData : createWallet(data)
  \/ Ready /\ Room("snapshot") /\ \E data \in CascadeDailyData : createSnapshot(data)
  \/ Ready /\ Room("monthly") /\ \E data \in CascadeMonthlyData : createMonthlySnapshot(data)
  \/ Ready /\ Room("goal") /\ \E data \in GoalData : createGoal(data)
  \/ Ready /\ \E id \in LoadedPortfolioIds, changes \in PortfolioChanges, failed \in BOOLEAN :
                updatePortfolio(id, changes, failed)
  \/ Ready /\ \E w \in state.wallets, failed \in BOOLEAN : deleteWallet(w.id, failed)
  \/ Ready /\ \E id \in LoadedPortfolioIds, failAt \in 0..DeleteStatements :
                deletePortfolio(id, failAt)

SpecFailure == SessionInit /\ [][FailureNext]_vars

\* the in-memory collections of the store
CollectionsOf(st) ==
  <<st.portfolios, st.wallets, st.snapshots, st.monthlySnapshots, st.goals,
    st.journalEntries, st.marketEvents, st.activePortfolioId>>

CreateActions ==
  {"createPortfolio", "createWallet", "createSnapshot", "createMonthlySnapshot",
   "createGoal", "createJournalEntry"}

\* C22: a store action whose backend call fails rejects (a remote create
\* without a signed-in user does), and an action that rejected has left the
\* tables of both backends and the in-memory collections as they were
C22_FailedActionChangesNothing ==
  [][/\ (CloudActive /\ ~Authenticated /\ ret'.op \in CreateActions) => ~ret'.ok
     /\ (ret'.op \in StoreActions \cup {"updatePortfolio", "deleteWallet"} /\ ~ret'.ok) =>
          /\ db' = db
          /\ supabase' = supabase
          /\ CollectionsOf(state') = CollectionsOf(state)]_vars

\* a delete of a portfolio with a wallet and a daily snapshot has failed in
\* the local database
C22_Witness ==
  /\ ret.op = "deletePortfolio" /\ ~ret.ok /\ ~CloudActive
  /\ \E p \in db.portfolios :
       /\ \E w \in db.wallets : w.portfolioId = p.id
       /\ \E x \in db.dailySnapshots : x.portfolioId = p.id

----------------------------------------------------------------------------
(* pages/Settings.tsx: the data management card next to the store actions *)

\* exportService.clearAll: one 'rw' transaction clearing four tables
exportService_clearAll(d) ==
  [d EXCEPT !.portfolios = {}, !.wallets = {}, !.dailySnapshots = {},
            !.monthlySnapshots = {}]

\* handleClearAll: clearAll(), then refreshData()
handleClearAll ==
  /\ db' = exportService_clearAll(db)
  /\ state' = AfterInitialize(useCloud, db', supabase)
  /\ ret' = Resolve("handleClearAll", Undefined)
  /\ UNCHANGED <<inFlight, fileContent, useCloud, supabaseConfigured, user, supabase, usedIds, now>>

BackendsNext ==
  \/ initialize(AppUseCloud)
  \/ refreshData
  \/ sessionExpired
  \/ Ready /\ Room("wallet") /\ \E data \in WalletData : createWallet(data)
  \/ Ready /\ Room("snapshot") /\ \E data \in CascadeDailyData : createSnapshot(data)
  \/ Ready /\ \E s \in state.snapshots : deleteSnapshot(s.id)
  \/ Ready /\ \E w \in state.wallets : deleteWallet(w.id, FALSE)
  \/ Ready /\ \E content \in {b \in DailyBackups : b.snapshots[1].totalUsd = MaxValue} :
                handleFileSelectJson(content)
  \/ Ready /\ handleClearAll

SpecBackends == SessionInit /\ [][BackendsNext]_vars

SettingsActions == {"handleFileSelect", "handleClearAll"}

\* C23: in remote mode no store action, import or clear-all writes a table of
\* the local database, and in local mode none writes a remote table
C23_BackendsExclusive ==
  [][(ret'.op \in StoreActions \cup SettingsActions \cup {"deleteWallet"}) =>
       IF CloudActive THEN db' = db ELSE supabase' = supabase]_vars

----------------------------------------------------------------------------
(* utils/calculations.ts: the series of the charts.  An optional argument is
   <<>> when left out and <<n>> when given; a point is kept without its
   display label *)

\* [...snapshots].sort((a, b) => a.date.localeCompare(b.date)): oldest first,
\* snapshots of one date in their input order
RECURSIVE SortOldestFirst(_)
SortOldestFirst(snapshots) ==
  IF snapshots = <<>> THEN <<>>
  ELSE LET x == Head(snapshots)
           rest == SortOldestFirst(Tail(snapshots))
           k == Cardinality({i \in 1..Len(rest) : rest[i].date < x.date})
       IN SubSeq(rest, 1, k) \o <<x>> \o SubSeq(rest, k + 1, Len(rest))

\* Array.prototype.slice(-n) for n >= 0: the last n elements, all of them
\* when there are fewer; -0 is 0, so slice(-0) is slice(0), the whole array
SliceLast(s, n) ==
  IF n = 0 \/ n >= Len(s) THEN s
  ELSE SubSeq(s, Len(s) - n + 1, Len(s))

getChartData(snapshots, limit) ==
  LET sorted == SortOldestFirst(snapshots)
      data == [i \in 1..Len(sorted) |->
                 [date |-> sorted[i].date, value |-> sorted[i].totalUsd]]
  IN IF limit # <<>> /\ limit[1] # 0 /\ Len(data) > limit[1]
     THEN SliceLast(data, limit[1])
     ELSE data

getSparklineData(snapshots, points) ==
  LET sorted == SortOldestFirst(snapshots)
      recent == SliceLast(sorted, points)
  IN [i \in 1..Len(recent) |-> recent[i].totalUsd]

\* useMemo(() => getChartData(activeSnapshots, limit))
Dashboard_chartData(activeSnapshots, limit) ==
  /\ ret' = Resolve("getChartData",
                    [limit |-> limit, data |-> getChartData(activeSnapshots, limit)])
  /\ UNCHANGED <<inFlight, fileContent, useCloud, supabaseConfigured, user, db, supabase, state,
                 usedIds, now>>

\* useMemo(() => getSparklineData(activeSnapshots, points))
Dashboard_sparklineData(activeSnapshots, points) ==
  /\ ret' = Resolve("getSparklineData",
                    [points |-> points, data |-> getSparklineData(activeSnapshots, points)])
  /\ UNCHANGED <<inFlight, fileContent, useCloud, supabaseConfigured, user, db, supabase, state,
                 usedIds, now>>

\* the limits a caller can pass: none, or a number of points
ChartLimits == {<<>>} \cup {<<n>> : n \in SeriesSizes}

\* local databases holding one portfolio and a daily series of positive totals
ChartInit == MetricsInit /\ \A x \in db.dailySnapshots : x.totalUsd > 0

ChartNext ==
  \/ initialize(AppUseCloud)
  \/ Ready /\ \E activeSnapshots \in Orders(ActiveSnapshots), limit \in ChartLimits :
                Dashboard_chartData(activeSnapshots, limit)
  \/ Ready /\ \E activeSnapshots \in Orders(ActiveSnapshots), points \in SeriesSizes :
                Dashboard_sparklineData(activeSnapshots, points)

SpecChart == ChartInit /\ [][ChartNext]_vars

\* the number of snapshots of S shown as point p, and of entries p in data
ShownAs(S, p) == Cardinality({x \in S : x.date = p.date /\ x.totalUsd = p.value})
PointCount(data, p) == Cardinality({i \in 1..Len(data) : data[i] = p})

\* data holds the n latest points of the series S, oldest first
IsLastOf(data, S, n) ==
  /\ Len(data) = IF Cardinality(S) <= n THEN Cardinality(S) ELSE n
  /\ \A i, j \in 1..Len(data) : i < j => data[i].date <= data[j].date
  /\ \A p \in Range(data) : PointCount(data, p) <= ShownAs(S, p)
  /\ \A x \in S :
       LET p == [date |-> x.date, value |-> x.totalUsd]
       IN PointCount(data, p) < ShownAs(S, p) =>
             \A q \in Range(data) : p.date <= q.date

\* C24: getChartData(snapshots, limit) with a limit given returns the last
\* limit points of the series in ascending order of date, all of them when
\* the series has at most limit points
C24_ChartDataLastLimit ==
  (ret.op = "getChartData" /\ ret.value.limit # <<>>) =>
     IsLastOf(ret.value.data, ActiveSnapshots, ret.value.limit[1])

----------------------------------------------------------------------------
(* The totals the snapshot form and the CSV import persist *)

\* the daily snapshots stored in the two backends, as the reads return them
StoredDaily ==
  db.dailySnapshots \cup {rowToDailySnapshot(r) : r \in supabase.daily_snapshots}

\* C25: every daily snapshot the snapshot form or the CSV import has
\* persisted holds as totalUsd the sum of the valueUsd of its walletBalances
C25_TotalIsSumOfBalances ==
  \A s \in StoredDaily : s.totalUsd = SumOfBalances(s.walletBalances)

----------------------------------------------------------------------------
(* Deleting a wallet that stored snapshots hold balances of *)

WalletNext ==
  \/ initialize(AppUseCloud)
  \/ Ready /\ \E date \in {MaxDate} :
                \E walletValues \in [{x.id : x \in ActiveWallets} -> FormValues],
                   prevSnapshot \in PrevChoices(date) :
                   AddSnapshotModal_handleSubmit(date, walletValues, prevSnapshot)
  \/ Ready /\ \E w \in state.wallets, failed \in BOOLEAN : deleteWallet(w.id, failed)
  \/ Ready /\ \E activeSnapshots \in Orders(ActiveSnapshots) :
                Dashboard_allocations(activeSnapshots)

SpecWallet == TotalsInit /\ [][WalletNext]_vars

\* the balances of snapshot s that name wallet id
BalancesNaming(s, id) ==
  SelectSeq(s.walletBalances, LAMBDA b : b.walletId = id)

\* the entries calculateWalletAllocations gives for the balances of s that
\* name wallet id are named 'Unknown' and coloured '#888888', one for each
\* such balance of a value above 0
ReportedUnknown(s, wallets, id) ==
  LET entries == SelectSeq(calculateWalletAllocations(s, wallets),
                           LAMBDA a : a.walletId = id)
      positive == SelectSeq(BalancesNaming(s, id), LAMBDA b : b.valueUsd > 0)
  IN /\ \A i \in 1..Len(entries) :
          entries[i].walletName = "Unknown" /\ entries[i].color = "#888888"
     /\ s.totalUsd # 0 => Len(entries) = Len(positive)

\* C26: deleteWallet removes the wallet and nothing else: the stored and the
\* in-memory daily snapshots keep their balances and totals, and
\* calculateWalletAllocations reports the balances of the deleted wallet
\* under the name 'Unknown' with the color '#888888'
C26_DeleteWalletKeepsBalances ==
  [][(ret'.op = "deleteWallet" /\ ret'.ok) =>
       /\ IF CloudActive
          THEN /\ db' = db
               /\ supabase' = [supabase EXCEPT !.wallets = {w \in @ : w.id # ret'.value}]
          ELSE /\ db' = [db EXCEPT !.wallets = {w \in @ : w.id # ret'.value}]
               /\ supabase' = supabase
       /\ state' = [state EXCEPT !.wallets = {w \in @ : w.id # ret'.value}]
       /\ {w \in state'.wallets : w.id = ret'.value} = {}
       /\ \A s \in state'.snapshots :
             ReportedUnknown(s, {w \in state'.wallets : w.portfolioId = s.portfolioId},
                             ret'.value)]_vars

\* a wallet has been deleted that a stored snapshot holds a balance above 0 of
C26_Witness ==
  /\ ret.op = "deleteWallet" /\ ret.ok
  /\ \E s \in state.snapshots :
       /\ s \in StoredDaily
       /\ s.totalUsd # 0
       /\ \E i \in 1..Len(s.walletBalances) :
            s.walletBalances[i].walletId = ret.value /\ s.walletBalances[i].valueUsd > 0

----------------------------------------------------------------------------
(* Two createSnapshot calls in flight at once: a call awaits its existence
   check, and the handler of another event (a second form submit, a row of a
   running CSV import) runs before the call goes on to its write *)

\* calls between their existence check and their write
MaxInFlight == 2

\* createDailySnapshot (local) after getDailySnapshotByDate has resolved to
\* existing: put over the row found, add when none was found
localDb_writeDailySnapshot(d, snapshot, existing) ==
  IF existing # {}
  THEN LET e == CHOOSE x \in existing : TRUE
       IN [d EXCEPT !.dailySnapshots = TablePut(@, [snapshot EXCEPT !.id = e])]
  ELSE [d EXCEPT !.dailySnapshots = TableAdd(@, snapshot)]

\* createDailySnapshot (supabase) after the select of the existing id has
\* resolved: update().eq('id', existing.id).select().single(), or the insert,
\* which the UNIQUE(portfolio_id, date) constraint checks when it runs
supabaseData_writeDailySnapshot(c, snapshot, existing, newId) ==
  IF existing # {}
  THEN LET rows == {r \in Visible(c.daily_snapshots) : r.id \in existing}
       IN IF rows = {}
          THEN [error |-> "no rows", db |-> c, value |-> Undefined, inserted |-> FALSE]
          ELSE LET e == CHOOSE r \in rows : TRUE
                   row == [e EXCEPT !.wallet_balances = snapshot.walletBalances,
                                    !.total_usd = Decimal2(snapshot.totalUsd),
                                    !.variation_percent = snapshot.variationPercent,
                                    !.variation_usd = Decimal2(snapshot.variationUsd)]
               IN [error |-> NoError,
                   db |-> [c EXCEPT !.daily_snapshots = (@ \ {e}) \cup {row}],
                   value |-> rowToDailySnapshot(row), inserted |-> FALSE]
  ELSE LET row == [id |-> newId, user_id |-> user,
                   portfolio_id |-> snapshot.portfolioId, date |-> snapshot.date,
                   wallet_balances |-> snapshot.walletBalances,
                   total_usd |-> Decimal2(snapshot.totalUsd),
                   variation_percent |-> snapshot.variationPercent,
                   variation_usd |-> Decimal2(snapshot.variationUsd)]
       IN IF DailyInsertAllowed(c, row)
          THEN [error |-> NoError,
                db |-> [c EXCEPT !.daily_snapshots = @ \cup {row}],
                value |-> rowToDailySnapshot(row), inserted |-> TRUE]
          ELSE [error |-> "constraint", db |-> c, value |-> Undefined,
                inserted |-> FALSE]

\* createSnapshot up to the await of the existence check: the branch taken,
\* the id made for a local snapshot and the ids of the rows the check found
createSnapshot_check(data) ==
  /\ Len(inFlight) < MaxInFlight
  /\ HasFresh("snapshot")
  /\ IF CloudActive
     THEN IF ~Authenticated
          THEN /\ inFlight' = inFlight
               /\ ret' = Reject("createSnapshot", "Not authenticated")
               /\ usedIds' = usedIds
          ELSE LET hits == {r \in Visible(supabase.daily_snapshots) :
                              r.portfolio_id = data.portfolioId /\ r.date = data.date}
               IN /\ inFlight' = Append(inFlight,
                        [cloud |-> TRUE, snapshot |-> data,
                         existing |-> IF Cardinality(hits) = 1
                                      THEN {r.id : r \in hits} ELSE {}])
                  /\ ret' = Resolve("getDailySnapshotByDate", Undefined)
                  /\ usedIds' = usedIds
     ELSE LET id == FreshId("snapshot")
          IN /\ inFlight' = Append(inFlight,
                   [cloud |-> FALSE, snapshot |-> Merge(data, [id |-> id]),
                    existing |-> {r.id : r \in localDb_getDailySnapshotByDate(
                                                  db, data.portfolioId, data.date)}])
             /\ ret' = Resolve("getDailySnapshotByDate", Undefined)
             /\ usedIds' = UseId("snapshot", {id})
  /\ UNCHANGED <<fileContent, useCloud, supabaseConfigured, user, db, supabase, state, now>>

\* the rest of the i-th call in flight: the write, then the set() of the store
createSnapshot_write(i) ==
  /\ i \in 1..Len(inFlight)
  /\ inFlight' = SubSeq(inFlight, 1, i - 1) \o SubSeq(inFlight, i + 1, Len(inFlight))
  /\ LET call == inFlight[i]
     IN IF call.cloud
        THEN /\ HasFresh("snapshot")
             /\ LET id == FreshId("snapshot")
                    r == supabaseData_writeDailySnapshot(
                           supabase, call.snapshot, call.existing, id)
                IN /\ supabase' = r.db
                   /\ usedIds' = IF r.inserted THEN UseId("snapshot", {id}) ELSE usedIds
                   /\ db' = db
                   /\ IF r.error # NoError
                      THEN /\ state' = state
                           /\ ret' = Reject("createSnapshot", r.error)
                      ELSE /\ state' = [state EXCEPT !.snapshots =
                                          {s \in @ : ~(s.portfolioId = r.value.portfolioId
                                                       /\ s.date = r.value.date)}
                                          \cup {r.value}]
                           /\ ret' = Resolve("createSnapshot", r.value)
        ELSE /\ db' = localDb_writeDailySnapshot(db, call.snapshot, call.existing)
             /\ UNCHANGED <<supabase, usedIds>>
             /\ state' = [state EXCEPT !.snapshots =
                            {s \in @ : ~(s.portfolioId = call.snapshot.portfolioId
                                         /\ s.date = call.snapshot.date)}
                            \cup {call.snapshot}]
             /\ ret' = Resolve("createSnapshot", call.snapshot)
  /\ UNCHANGED <<fileContent, useCloud, supabaseConfigured, user, now>>

RaceNext ==
  \/ initialize(AppUseCloud)
  \/ Ready /\ \E data \in {x \in DailyData : x.date = MaxDate} : createSnapshot_check(data)
  \/ \E i \in 1..Len(inFlight) : createSnapshot_write(i)

SpecRace == DailyInit /\ [][RaceNext]_vars

\* C27: whatever the order of the checks and the writes of the daily upserts
\* in flight, no backend ever stores two rows for one (portfolio, date)
C27_NoDuplicateAfterRace ==
  /\ \A a, b \in db.dailySnapshots :
        (a.portfolioId = b.portfolioId /\ a.date = b.date) => a.id = b.id
  /\ \A a, b \in supabase.daily_snapshots :
        (a.portfolio_id = b.portfolio_id /\ a.date = b.date) => a.id = b.id

----------------------------------------------------------------------------
(* The in-memory collections against a fresh load *)

\* the entities a store holds, whatever their order in the arrays
EntitiesOf(st) ==
  <<Range(st.portfolios), st.wallets, st.snapshots, st.monthlySnapshots, st.goals,
    st.journalEntries, st.marketEvents>>

\* the store st holds what initialize(useCloud) would load from d and c
MatchesReload(st, d, c) == EntitiesOf(st) = EntitiesOf(AfterInitialize(useCloud, d, c))

CacheActions ==
  StoreActions \cup {"updateSnapshot", "updatePortfolio", "deleteWallet", "createJournalEntry"}

\* C28: a store action that completes on a store holding what a load would
\* return leaves a store that again holds what a load would return
C28_CacheMatchesReload ==
  [][(ret'.op \in CacheActions /\ ret'.ok /\ MatchesReload(state, db, supabase)) =>
       MatchesReload(state', db', supabase')]_vars

----------------------------------------------------------------------------
(* The active portfolio *)

setActivePortfolio(id) ==
  /\ state' = [state EXCEPT !.activePortfolioId = id]
  /\ ret' = Resolve("setActivePortfolio", id)
  /\ UNCHANGED <<inFlight, fileContent, useCloud, supabaseConfigured, user, db, supabase, usedIds,
                 now>>

PortfolioNext ==
  \/ initialize(AppUseCloud)
  \/ refreshData
  \/ sessionExpired
  \/ Ready /\ createPortfolio("Second", "#a855f7")
  \/ Ready /\ \E id \in LoadedPortfolioIds : setActivePortfolio(id)
  \/ Ready /\ \E id \in LoadedPortfolioIds, failAt \in 0..DeleteStatements :
                deletePortfolio(id, failAt)

SpecPortfolio == DailyInit /\ [][PortfolioNext]_vars

\* activePortfolioId is null exactly when no portfolio is loaded, and is the
\* id of a loaded portfolio otherwise
ActiveIsLoaded(st) ==
  IF st.portfolios = <<>> THEN st.activePortfolioId = Undefined
  ELSE \E i \in 1..Len(st.portfolios) : st.portfolios[i].id = st.activePortfolioId

\* C29: after initialize and after every createPortfolio, deletePortfolio and
\* setActivePortfolio on a loaded portfolio, activePortfolioId is null exactly
\* when the portfolios are empty and names a loaded portfolio otherwise; a
\* delete of the active portfolio moves it to the first portfolio that remains
C29_ActivePortfolioValid ==
  [][/\ ActiveIsLoaded(state')
     /\ (ret'.op = "deletePortfolio" /\ ret'.ok /\ state.activePortfolioId = ret'.value
         /\ state'.portfolios # <<>>) =>
          state'.activePortfolioId = state'.portfolios[1].id]_vars

\* the only portfolio, which was the active one, has been deleted
C29_Witness ==
  /\ ret.op = "deletePortfolio" /\ ret.ok
  /\ state.portfolios = <<>>
  /\ state.activePortfolioId = Undefined
  /\ ~state.isLoading

----------------------------------------------------------------------------
(* initialize and refreshData as the two steps of an asynchronous call *)

\* a handle for a call that none of the calls in flight carries
FreeCall == CHOOSE t \in 1..MaxInFlight : \A i \in 1..Len(inFlight) : inFlight[i].call # t

\* initialize up to its first await: set({ isLoading: true, error: null, useCloud })
initialize_start(cloud) ==
  /\ Len(inFlight) < MaxInFlight
  /\ useCloud' = cloud
  /\ state' = [state EXCEPT !.isLoading = TRUE, !.error = NoError]
  /\ inFlight' = Append(inFlight, [cloud |-> cloud, call |-> FreeCall])
  /\ ret' = Resolve("loading", FreeCall)
  /\ UNCHANGED <<fileContent, supabaseConfigured, user, db, supabase, usedIds, now>>

\* the rest of initialize once its loads have answered: the closing set of the
\* try block, which leaves error as it is, or the set of the catch block; the
\* promise resolves either way, and ret.error is what the catch block caught
initialize_finish(i) ==
  /\ i \in 1..Len(inFlight)
  /\ LET cloud == inFlight[i].cloud
         failed == cloud /\ supabaseConfigured /\ ~Authenticated
     IN /\ state' = IF failed
                    THEN AfterInitialize(cloud, db, supabase)
                    ELSE [AfterInitialize(cloud, db, supabase) EXCEPT !.error = state.error]
        /\ useCloud' = IF failed THEN useCloud ELSE cloud
        /\ ret' = [Resolve("initialize", inFlight[i].call) EXCEPT
                     !.error = IF failed THEN state'.error ELSE NoError]
  /\ inFlight' = SubSeq(inFlight, 1, i - 1) \o SubSeq(inFlight, i + 1, Len(inFlight))
  /\ UNCHANGED <<fileContent, supabaseConfigured, user, db, supabase, usedIds, now>>

\* refreshData(): const { initialize, useCloud } = get(); await initialize(useCloud)
refreshData_start == initialize_start(useCloud)

LoadNext ==
  \/ initialize_start(AppUseCloud)
  \/ Ready /\ refreshData_start
  \/ \E i \in 1..MaxInFlight : initialize_finish(i)
  \/ sessionExpired
  \/ Ready /\ \E id \in LoadedPortfolioIds : setActivePortfolio(id)
  \/ Ready /\ \E id \in LoadedPortfolioIds : deletePortfolio(id, 0)

\* every request a load awaits is answered
SpecLoad ==
  /\ SessionInit
  /\ [][LoadNext]_vars
  /\ \A i \in 1..MaxInFlight : WF_vars(initialize_finish(i))

CallInFlight(t) == \E i \in 1..Len(inFlight) : inFlight[i].call = t

\* what a load from the backend that useCloud selects returns
SelectedBackendData(cloud) ==
  EntitiesOf(IF cloud THEN LoadFromSupabase(supabase) ELSE LoadFromLocal(db))

\* C30: every initialize and refreshData call ends, and ends with isLoading
\* false; when the load succeeded error is null and the collections are the
\* data of the backend that useCloud selects, and when it failed error holds
\* the message and the collections are the ones held before
C30_InitializeEnds ==
  /\ \A t \in 1..MaxInFlight :
       CallInFlight(t) ~> (ret.op = "initialize" /\ ret.value = t /\ ~state.isLoading)
  /\ [][ret'.op = "initialize" =>
          /\ ~state'.isLoading
          /\ IF ret'.error = NoError
             THEN /\ state'.error = NoError
                  /\ EntitiesOf(state') = SelectedBackendData(useCloud')
             ELSE /\ state'.error = "Not authenticated"
                  /\ CollectionsOf(state') = CollectionsOf(state)]_vars

====
